---- MODULE Spec2Model ----
(***************************************************************************)
(* Excel-Visualizer backend: the upload / parse / reprocess / delete life  *)
(* cycle of File documents, the charts made from them, and the access      *)
(* checks of the file and chart routes.                                    *)
(*                                                                         *)
(* An Express handler runs up to its next await in one step; a handler     *)
(* that awaits a database write and then goes on is suspended in           *)
(* `pending` between the two, so that other requests interleave exactly    *)
(* where Node lets them.                                                   *)
(***************************************************************************)
EXTENDS Integers, Sequences, FiniteSets, TLC

\* ------------------------------------------------------------------ bounds
\* Files that multer stores and that stay (as a File document or as a leaked file).
MaxFiles == 1
\* Chart documents ever created.
MaxCharts == 1
\* Files stored while every route of the API is exercised.
MaxRouteFiles == 1
\* Files stored while the upload gate is exercised.
MaxGateFiles == 1
\* Rows of the data analyzeColumns is called with.
MaxRows == 4
\* Handlers suspended at an await at the same time.
MaxPending == 2

\* ------------------------------------------------------------ JS strings
\* A string is `lead` blanks, a blank-free `core`, `trail` blanks.
\* CoreLen gives the number of characters of each core the model uses.
CoreLen(c) ==
    CASE c = ""           -> 0
      [] c \in {"q", "r", "x", "y", "z", "7"} -> 1
      [] c \in {"ab", "12", "S1"}   -> 2
      [] c = "_rowIndex"  -> 9
      [] c = "2020-01-05" -> 10
      [] c \in {"Column_1", "Column_2", "Column_3"} -> 8
      [] c = "tag21"      -> 21
      [] c = "desc501"    -> 501

Txt(l, c, t) == [lead |-> l, core |-> c, trail |-> t]
Word(c) == Txt(0, c, 0)
EmptyTxt == Word("")

\* String.prototype.length
StrLen(s) == s.lead + CoreLen(s.core) + s.trail

\* String.prototype.trim
Trim(s) == Word(s.core)

\* ------------------------------------------------------------- JS values
\* t: the typeof / instanceof class; s: the text of a string or Date;
\* n: the number of a number; b: the boolean.
JsNull      == [t |-> "null",      s |-> EmptyTxt, n |-> 0, b |-> FALSE]
JsUndefined == [t |-> "undefined", s |-> EmptyTxt, n |-> 0, b |-> FALSE]
JsStr(s)    == [t |-> "string",    s |-> s,        n |-> 0, b |-> FALSE]
JsNum(n)    == [t |-> "number",    s |-> EmptyTxt, n |-> n, b |-> FALSE]
JsDate(s)   == [t |-> "date",      s |-> s,        n |-> 0, b |-> FALSE]
JsBool(b)   == [t |-> "boolean",   s |-> EmptyTxt, n |-> 0, b |-> b]
JsObject    == [t |-> "object",    s |-> EmptyTxt, n |-> 0, b |-> FALSE]

\* val !== null && val !== undefined
Present(v) == v.t \notin {"null", "undefined"}

\* val !== null && val !== undefined && val !== ''
NonEmpty(v) == Present(v) /\ v # JsStr(EmptyTxt)

\* ----------------------------------------------------- path and env helpers
\* A file name is a sequence of characters.
LowerChar(c) ==
    CASE c = "X" -> "x" [] c = "L" -> "l" [] c = "S" -> "s" [] OTHER -> c

\* String.prototype.toLowerCase on a file name
ToLowerCase(name) == [i \in 1..Len(name) |-> LowerChar(name[i])]

\* Index of the last "." of name, 0 when there is none.
RECURSIVE LastDot(_, _)
LastDot(name, i) ==
    IF i = 0 THEN 0
    ELSE IF name[i] = "." THEN i ELSE LastDot(name, i - 1)

\* path.extname: from the last "." to the end; "" when there is no "." or
\* when the only "." is the first character of the name.
ExtName(name) ==
    LET d == LastDot(name, Len(name))
    IN IF d <= 1 THEN <<>> ELSE SubSeq(name, d, Len(name))

IsDigit(c) == c \in {"0", "1", "2", "3", "4", "5", "6", "7", "8", "9"}

DigitVal(c) ==
    CASE c = "0" -> 0 [] c = "1" -> 1 [] c = "2" -> 2 [] c = "3" -> 3
      [] c = "4" -> 4 [] c = "5" -> 5 [] c = "6" -> 6 [] c = "7" -> 7
      [] c = "8" -> 8 [] c = "9" -> 9

NaN == -1

\* parseInt(str): the value of the leading run of digits; NaN when the
\* string is undefined (<<>>) or starts with no digit.
RECURSIVE ParseDigits(_, _, _)
ParseDigits(str, i, acc) ==
    IF i > Len(str) \/ ~IsDigit(str[i]) THEN acc
    ELSE ParseDigits(str, i + 1, acc * 10 + DigitVal(str[i]))

ParseInt(str) ==
    IF str = <<>> \/ ~IsDigit(str[1]) THEN NaN ELSE ParseDigits(str, 1, 0)

\* 10 * 1024 * 1024
TenMB == 10485760

\* limits.fileSize: parseInt(process.env.MAX_FILE_SIZE) || 10 * 1024 * 1024
FileSizeLimit(envStr) ==
    LET n == ParseInt(envStr)
    IN IF n = NaN \/ n = 0 THEN TenMB ELSE n

\* --------------------------------------------------------------- multer
AllowedMimes == {"application/vnd.ms-excel",
                 "application/vnd.openxmlformats-officedocument.spreadsheetml.sheet"}

AllowedExtensions == {<<".", "x", "l", "s">>, <<".", "x", "l", "s", "x">>}

\* cb(null, true) exactly when the mimetype and the lower-cased extension are allowed
FilterWrong(file) ==
    file.mimetype \in AllowedMimes \/ ToLowerCase(ExtName(file.originalname)) \in AllowedExtensions

fileFilter(file) ==
    file.mimetype \in AllowedMimes /\ ToLowerCase(ExtName(file.originalname)) \in AllowedExtensions

\* excel-<unique suffix><extension of the original name>
StorageFilename(id, file) == [unique |-> id, ext |-> ExtName(file.originalname)]

\* ---------------------------------------------------------- ExcelParser
\* What is on disk: the workbook XLSX.readFile yields, with `json` the
\* first sheet as XLSX.utils.sheet_to_json(ws, {header: 1, defval: null,
\* raw: false}) returns it (rows of cells, each null or a formatted string).
NumericCores == {"12", "7"}
DateCores == {"2020-01-05"}

CoreNum(c) == CASE c = "12" -> 12 [] c = "7" -> 7 [] OTHER -> 0

\* isNaN(str): Number(str) trims blanks and maps the empty string to 0
IsNaNStr(s) == s.core \notin (NumericCores \cup {""})

\* parseFloat(str)
ParseFloat(s) == IF s.core \in NumericCores THEN CoreNum(s.core) ELSE NaN

\* datePatterns.some(p => p.test(str)) && !isNaN(Date.parse(str)); the patterns are anchored
isDateString(v) ==
    v.t = "string" /\ v.s.lead = 0 /\ v.s.trail = 0 /\ v.s.core \in DateCores

\* `Column_${index + 1}`
ColumnName(i) ==
    Word(CASE i = 1 -> "Column_1" [] i = 2 -> "Column_2" [] OTHER -> "Column_3")

\* headers.map((header, index) => ...)
CleanHeader(header, i) ==
    IF ~NonEmpty(header) THEN ColumnName(i) ELSE Trim(header.s)

CleanHeaders(headers) == [i \in 1..Len(headers) |-> CleanHeader(headers[i], i)]

\* the cell conversion of parseExcelFile's forEach body
ConvertCell(cell) ==
    LET num == IF Present(cell) /\ cell.t = "string" /\ ~IsNaNStr(cell.s)
                  /\ Trim(cell.s) # EmptyTxt /\ ParseFloat(cell.s) # NaN
               THEN JsNum(ParseFloat(cell.s))
               ELSE cell
    IN IF Present(num) /\ isDateString(num) THEN JsDate(num.s) ELSE num

\* row[colIndex]
CellAt(row, i) == IF i <= Len(row) THEN row[i] ELSE JsUndefined

RowIndexKey == Word("_rowIndex")

\* Greatest column index whose clean header is key (a later assignment
\* rowObject[header] = ... overwrites an earlier one).
LastCol(cleanHeaders, key) ==
    CHOOSE i \in 1..Len(cleanHeaders) :
        /\ cleanHeaders[i] = key
        /\ \A j \in 1..Len(cleanHeaders) : cleanHeaders[j] = key => j <= i

\* .map((row, rowIndex) => { ...; rowObject._rowIndex = rowIndex + 2; })
\* with rowIndex counted from 0 over the rows the filter kept
RowObject(cleanHeaders, row, rowIndex) ==
    [k \in {cleanHeaders[i] : i \in 1..Len(cleanHeaders)} \cup {RowIndexKey} |->
        IF k = RowIndexKey THEN JsNum(rowIndex + 2)
        ELSE ConvertCell(CellAt(row, LastCol(cleanHeaders, k)))]

\* row && row.some(cell => cell !== null && cell !== undefined && cell !== '')
RowKept(row) == \E i \in 1..Len(row) : NonEmpty(row[i])

FilterRows(rows) == SelectSeq(rows, RowKept)

\* row[header]
Prop(row, key) == IF key \in DOMAIN row THEN row[key] ELSE JsUndefined

TypeOrder == <<"string", "number", "date", "boolean", "null">>

\* the if / else-if chain of values.forEach
TypeOf(v) ==
    CASE v.t = "number"  -> "number"
      [] v.t = "date"    -> "date"
      [] v.t = "boolean" -> "boolean"
      [] v.t = "string"  -> "string"
      [] OTHER           -> "null"

RECURSIVE CountType(_, _)
CountType(values, ty) ==
    IF values = <<>> THEN 0
    ELSE (IF TypeOf(Head(values)) = ty THEN 1 ELSE 0) + CountType(Tail(values), ty)

\* typeEntries.reduce((a, b) => types[a[0]] > types[b[0]] ? a : b)[0]
RECURSIVE ReduceFirstWins(_, _, _)
ReduceFirstWins(types, acc, i) ==
    IF i > Len(TypeOrder) THEN acc
    ELSE ReduceFirstWins(types, IF types[acc] >= types[TypeOrder[i]] THEN acc ELSE TypeOrder[i], i + 1)

RECURSIVE ReducePrimary(_, _, _)
ReducePrimary(types, acc, i) ==
    IF i > Len(TypeOrder) THEN acc
    ELSE ReducePrimary(types, IF types[acc] > types[TypeOrder[i]] THEN acc ELSE TypeOrder[i], i + 1)

PrimaryTypeWrong(types) == ReduceFirstWins(types, TypeOrder[1], 2)

PrimaryType(types) == ReducePrimary(types, TypeOrder[1], 2)

RECURSIVE SumNumbers(_)
SumNumbers(values) ==
    IF values = <<>> THEN 0
    ELSE (IF Head(values).t = "number" THEN Head(values).n ELSE 0) + SumNumbers(Tail(values))

NumbersOf(values) == {values[i].n : i \in {j \in 1..Len(values) : values[j].t = "number"}}

Min(S) == CHOOSE x \in S : \A y \in S : x <= y
Max(S) == CHOOSE x \in S : \A y \in S : x >= y

\* new Set(values).size: primitives by value, every Date and object by identity
UniqueCount(values) ==
    Cardinality({values[i] : i \in {j \in 1..Len(values) : values[j].t \notin {"date", "object"}}})
    + Cardinality({j \in 1..Len(values) : values[j].t \in {"date", "object"}})

\* rows.map(row => row[header]).filter(val => val !== null && val !== undefined && val !== '')
ColumnValues(rows, header) ==
    SelectSeq([i \in 1..Len(rows) |-> Prop(rows[i], header)], NonEmpty)

\* analysis[header] of analyzeColumns
AnalyzeColumn(rows, header) ==
    LET values == ColumnValues(rows, header)
        types == [ty \in {TypeOrder[i] : i \in 1..Len(TypeOrder)} |-> CountType(values, ty)]
    IN [dataType         |-> PrimaryType(types),
        totalValues      |-> Len(values),
        uniqueValues     |-> UniqueCount(values),
        nullCount        |-> Len(rows) - Len(values),
        typeDistribution |-> types,
        isNumeric        |-> types["number"] > types["string"] /\ types["number"] > 0,
        isDate           |-> types["date"] > 0,
        statistics       |-> IF types["number"] > 0
                             THEN [has |-> TRUE, min |-> Min(NumbersOf(values)),
                                   max |-> Max(NumbersOf(values)),
                                   averageNum |-> SumNumbers(values),
                                   averageDen |-> types["number"],
                                   sum |-> SumNumbers(values)]
                             ELSE [has |-> FALSE, min |-> 0, max |-> 0,
                                   averageNum |-> 0, averageDen |-> 1, sum |-> 0]]

analyzeColumns(headers, rows) ==
    [h \in {headers[i] : i \in 1..Len(headers)} |-> AnalyzeColumn(rows, h)]

\* parseExcelFile on the workbook read from disk; `readOk` is whether
\* fs.existsSync and XLSX.readFile succeeded.  ok = FALSE is the throw.
parseExcelFile(readOk, size, wb) ==
    IF ~readOk \/ wb.SheetNames = <<>> \/ wb.json = <<>>
    THEN [ok |-> FALSE]
    ELSE LET cleanHeaders == CleanHeaders(wb.json[1])
             kept == FilterRows(Tail(wb.json))
             processedRows == [i \in 1..Len(kept) |-> RowObject(cleanHeaders, kept[i], i - 1)]
         IN [ok           |-> TRUE,
             headers      |-> cleanHeaders,
             rows         |-> processedRows,
             totalRows    |-> Len(processedRows),
             totalColumns |-> Len(cleanHeaders),
             metadata     |-> [sheetNames     |-> wb.SheetNames,
                               activeSheet    |-> wb.SheetNames[1],
                               totalSheets    |-> Len(wb.SheetNames),
                               fileSize       |-> size,
                               columnAnalysis |-> analyzeColumns(cleanHeaders, processedRows)]]

\* stats.size > maxSize
OverMaxSize(size) == size > TenMB

\* validateExcelFile(file.path).isValid
validateExcelFile(readOk, size, wb) ==
    /\ ~OverMaxSize(size)
    /\ readOk
    /\ wb.SheetNames # <<>>

\* ------------------------------------------------------------ the state
VARIABLES
    env,        \* process.env.MAX_FILE_SIZE as a string; <<>> when unset
    nextId,     \* the next unique suffix / File _id
    disk,       \* uploads directory: path -> [size, wb]
    files,      \* File collection: _id -> document
    nextChart,  \* the next Chart _id
    charts,     \* Chart collection: _id -> document
    pending,    \* handlers suspended at an await
    answered,   \* history: File _id -> the answer POST /upload sent for it
    updated,    \* history: the files a PUT /api/files/:id has saved
    call,       \* the arguments of a direct call of an ExcelParser function
    result,     \* what that call returned
    accounts,   \* User collection: _id -> [role, isActive]
    liked       \* history: the <<chart, user>> pairs with an odd number of likes answered 200

vars == <<env, nextId, disk, files, nextChart, charts, pending, answered, updated, call, result,
          accounts, liked>>

\* req.user as the auth middleware sets it
Users == {"u1", "u2", "admin"}

\* req.user.role: the role stored for the authenticated user
Role(u) == accounts[u].role

FileIds == 1..MaxFiles
ChartIds == 1..MaxCharts

\* an empty collection
EmptyMap == [x \in {} |-> x]

\* res.status(...) of each way a handler ends; 0: the handler goes on past an await
StatusOf(outcome) ==
    CASE outcome = "ok"       -> 200
      [] outcome = "created"  -> 201
      [] outcome \in {"validation", "state", "xcolumn", "ycolumn", "zcolumn",
                      "unexpected", "filtered", "toolarge", "nofile", "invalid",
                      "invalidrole", "notboolean", "self"} -> 400
      [] outcome = "unauthorized" -> 401
      [] outcome \in {"denied", "notpublic"} -> 403
      [] outcome = "notfound" -> 404
      [] outcome = "parse"    -> 422
      [] outcome = "error"    -> 500
      [] outcome = "accepted" -> 0

\* A number that no handler of this route in flight carries
FreeRequest(op) ==
    CHOOSE n \in 1..MaxPending : \A q \in pending : q.op = op => q.request # n

\* ----------------------------------------------------------- File model
\* tags ? tags.split(',').map(tag => tag.trim()).filter(tag => tag.length > 0) : []
\* A comma-separated string is the sequence of its segments; <<>> is undefined.
SplitTags(tags) ==
    IF tags = <<>> \/ tags = <<EmptyTxt>> THEN <<>>
    ELSE SelectSeq([i \in 1..Len(tags) |-> Trim(tags[i])], LAMBDA t : StrLen(t) > 0)

\* const { description = '', tags = '' } = req.body; description.trim()
StoredDescription(d) == Trim(IF d = JsUndefined THEN EmptyTxt ELSE d.s)

\* new File({...}) of POST /upload, with the schema's defaults
NewFile(id, u, file, body) ==
    [filename      |-> StorageFilename(id, file),
     originalName  |-> file.originalname,
     path          |-> id,
     size          |-> file.size,
     mimetype      |-> file.mimetype,
     uploadedBy    |-> u,
     status        |-> "processing",
     description   |-> StoredDescription(body.description),
     tags          |-> SplitTags(body.tags),
     isPublic      |-> FALSE,
     processedData |-> [headers |-> <<>>, rows |-> <<>>, totalRows |-> 0, totalColumns |-> 0],
     metadata      |-> [sheetNames |-> <<>>, activeSheet |-> EmptyTxt],
     charts        |-> <<>>]

\* parsed data stored while the status stays as it is
WithParsedStillProcessing(doc, parsed) ==
    [doc EXCEPT !.processedData = [headers      |-> parsed.headers,
                                   rows         |-> parsed.rows,
                                   totalRows    |-> parsed.totalRows,
                                   totalColumns |-> parsed.totalColumns]]

\* fileData.processedData = {...}; fileData.metadata = {...} as the schema keeps
\* them; fileData.status = 'completed'
WithParsed(doc, parsed) ==
    [doc EXCEPT !.processedData = [headers      |-> parsed.headers,
                                   rows         |-> parsed.rows,
                                   totalRows    |-> parsed.totalRows,
                                   totalColumns |-> parsed.totalColumns],
                !.metadata = [sheetNames  |-> parsed.metadata.sheetNames,
                              activeSheet |-> parsed.metadata.activeSheet],
                !.status = "completed"]

\* a catch that leaves the status as it is
WithFailureForgotten(doc) == doc

\* catch (parseError): fileData.status = 'failed'
WithFailure(doc) == [doc EXCEPT !.status = "failed"]

\* a save that stores the new status and drops the parsed data
SavedWithoutData(doc, parsed) ==
    [doc EXCEPT !.status = IF parsed.ok THEN "completed" ELSE "failed"]

\* what the save after the parse attempt stores
SavedAfterParse(doc, parsed) ==
    IF parsed.ok THEN WithParsed(doc, parsed) ELSE WithFailure(doc)

\* ---------------------------------------------------- express-validator
\* body('description').optional().isLength({ max: 500 })
DescriptionValid(d) == d = JsUndefined \/ StrLen(d.s) <= 500

\* body('tags').optional().custom(...): every trimmed tag has at most 20 characters
TagsValid(tags) == \A i \in 1..Len(tags) : StrLen(Trim(tags[i])) <= 20

BodyValid(body) == DescriptionValid(body.description) /\ TagsValid(body.tags)

\* ------------------------------------------------- POST /api/files/upload
\* upload.single('excelFile') followed by handleMulterError:
\*   "nofile"      the request has no file part, req.file stays undefined
\*   "unexpected"  LIMIT_UNEXPECTED_FILE, the part has another field name
\*   "filtered"    fileFilter's Error
\*   "toolarge"    LIMIT_FILE_SIZE, multer removes what it wrote
\*   "stored"      the file is on disk and req.file is set
UploadField == "excelFile"

MulterOutcome(rq) ==
    IF rq.field = "none" THEN "nofile"
    ELSE IF rq.field # UploadField THEN "unexpected"
    ELSE IF ~fileFilter(rq.file) THEN "filtered"
    ELSE IF rq.file.size > FileSizeLimit(env) THEN "toolarge"
    ELSE "stored"

\* How the first segment of POST /upload ends.
UploadOutcome(rq, readOk) ==
    LET m == MulterOutcome(rq)
    IN IF m \in {"unexpected", "filtered", "toolarge"} THEN m
       ELSE IF ~BodyValid(rq.body) THEN "validation"
       ELSE IF m = "nofile" THEN "nofile"
       ELSE IF ~validateExcelFile(readOk, rq.file.size, rq.file.wb) THEN "invalid"
       ELSE "accepted"

\* await fs.unlink(path).catch(console.error)
Unlink(d, path) == [q \in DOMAIN d \ {path} |-> d[q]]

\* The 201 body of POST /upload, from the in-memory fileData
UploadBody(id, doc) ==
    [id           |-> id,
     filename     |-> doc.filename,
     originalName |-> doc.originalName,
     size         |-> doc.size,
     status       |-> doc.status,
     headers      |-> doc.processedData.headers,
     totalRows    |-> doc.processedData.totalRows,
     totalColumns |-> doc.processedData.totalColumns,
     sheetNames   |-> doc.metadata.sheetNames,
     description  |-> doc.description,
     tags         |-> doc.tags]

\* First segment: multer, the validators, validateExcelFile, and the first
\* fileData.save() with status 'processing'.  `cap` bounds the stored files.
UploadReceive(u, rq, readOk, cap) ==
    LET m       == MulterOutcome(rq)
        outcome == UploadOutcome(rq, readOk)
        id      == nextId
        written == (id :> [size |-> rq.file.size, wb |-> rq.file.wb]) @@ disk
    IN
    /\ nextId <= cap
    /\ UNCHANGED <<call, result, accounts, liked, env, nextChart, charts, answered, updated>>
    /\ CASE outcome \in {"unexpected", "filtered", "toolarge", "nofile"} ->
              UNCHANGED <<nextId, disk, files, pending>>
         [] outcome = "validation" ->
              \* 'Validation failed': the handler returns before any cleanup
              /\ disk' = IF m = "stored" THEN written ELSE disk
              /\ nextId' = IF m = "stored" THEN nextId + 1 ELSE nextId
              /\ UNCHANGED <<files, pending>>
         [] outcome = "invalid" ->
              /\ disk' = Unlink(written, id)
              /\ UNCHANGED <<nextId, files, pending>>
         [] outcome = "accepted" ->
              /\ Cardinality(pending) < MaxPending
              /\ disk' = written
              /\ files' = (id :> NewFile(id, u, rq.file, rq.body)) @@ files
              /\ nextId' = nextId + 1
              /\ pending' = pending \cup {[op |-> "upload", user |-> u, id |-> id,
                                           doc |-> NewFile(id, u, rq.file, rq.body)]}

\* ExcelParser.parseExcelFile(path) against the disk
ParseFromDisk(readOk, path) ==
    IF path \in DOMAIN disk
    THEN parseExcelFile(readOk, disk[path].size, disk[path].wb)
    ELSE [ok |-> FALSE]

\* The answer of the second segment of POST /upload.  A save of a document
\* deleted in the meantime throws: the outer catch answers 500.
UploadAnswer(p, readOk) ==
    LET parsed == ParseFromDisk(readOk, p.doc.path)
    IN IF p.id \notin DOMAIN files THEN [status |-> 500, fileId |-> p.id]
       ELSE IF parsed.ok
       THEN [status |-> 201, fileId |-> p.id, file |-> UploadBody(p.id, WithParsed(p.doc, parsed))]
       ELSE [status |-> 422, fileId |-> p.id]

\* Second segment: parseExcelFile, the second save, the answer.
UploadProcess(p, readOk) ==
    LET parsed == ParseFromDisk(readOk, p.doc.path)
    IN
    /\ p \in pending
    /\ p.op = "upload"
    /\ pending' = pending \ {p}
    /\ answered' = (p.id :> UploadAnswer(p, readOk)) @@ answered
    /\ UNCHANGED <<call, result, accounts, liked, env, nextId, nextChart, charts, updated>>
    /\ IF p.id \notin DOMAIN files
       THEN /\ disk' = Unlink(disk, p.doc.path)
            /\ UNCHANGED files
       ELSE /\ files' = [files EXCEPT ![p.id] = SavedAfterParse(@, parsed)]
            /\ UNCHANGED disk

\* --------------------------------------------------- GET /api/files/:id
\* file.uploadedBy._id.toString() !== req.user.id && req.user.role !== 'admin'
DetailsDenied(u, doc) == doc.uploadedBy # u /\ Role(u) # "admin"

GetFileOutcome(u, f) ==
    IF f \notin DOMAIN files THEN "notfound"
    ELSE IF DetailsDenied(u, files[f]) THEN "denied"
    ELSE "ok"

\* res.json({ file: file })
GetFileBody(f) == files[f]

GetFile(u, f) ==
    /\ GetFileOutcome(u, f) \in {"notfound", "denied", "ok"}
    /\ UNCHANGED vars

\* ---------------------------------------------- GET /api/files/:id/data
\* a check that forgets the isPublic flag's negation
DataDeniedWrong(u, doc) == doc.uploadedBy # u /\ doc.isPublic /\ Role(u) # "admin"

\* file.uploadedBy.toString() !== req.user.id && !file.isPublic && req.user.role !== 'admin'
DataDenied(u, doc) == doc.uploadedBy # u /\ ~doc.isPublic /\ Role(u) # "admin"

GetFileDataOutcome(u, f) ==
    IF f \notin DOMAIN files THEN "notfound"
    ELSE IF DataDenied(u, files[f]) THEN "denied"
    ELSE IF files[f].status # "completed" THEN "state"
    ELSE "ok"

\* parseInt(req.query.x) || dflt
QueryInt(q, dflt) == IF q = NaN \/ q = 0 THEN dflt ELSE q

\* a slice that takes the element at `end` as well
SliceInclusive(seq, start, end) ==
    SubSeq(seq, (IF start > Len(seq) THEN Len(seq) ELSE start) + 1,
                (IF end + 1 > Len(seq) THEN Len(seq) ELSE end + 1))

\* Array.prototype.slice(start, end) for 0 <= start <= end
Slice(seq, start, end) ==
    LET lo == IF start > Len(seq) THEN Len(seq) ELSE start
        hi == IF end > Len(seq) THEN Len(seq) ELSE end
    IN SubSeq(seq, lo + 1, hi)

\* Math.ceil(a / b) for a >= 0, b > 0
CeilDiv(a, b) == (a + b - 1) \div b

GetFileDataBody(f, pageQ, limitQ) ==
    LET doc        == files[f]
        page       == QueryInt(pageQ, 1)
        limit      == QueryInt(limitQ, 100)
        startIndex == (page - 1) * limit
        endIndex   == startIndex + limit
    IN [headers      |-> doc.processedData.headers,
        rows         |-> Slice(doc.processedData.rows, startIndex, endIndex),
        totalRows    |-> doc.processedData.totalRows,
        totalColumns |-> doc.processedData.totalColumns,
        currentPage  |-> page,
        totalPages   |-> CeilDiv(doc.processedData.totalRows, limit),
        hasMore      |-> endIndex < doc.processedData.totalRows,
        metadata     |-> doc.metadata]

GetFileData(u, f, pageQ, limitQ) ==
    /\ GetFileDataOutcome(u, f) \in {"notfound", "denied", "state", "ok"}
    /\ UNCHANGED vars

\* --------------------------------------------------- PUT /api/files/:id
\* tags of the body: kind "undefined", "string" (comma-separated segments)
\* or "array" (items).
PutTagsValid(tags) ==
    CASE tags.kind = "string" -> \A i \in 1..Len(tags.items) : StrLen(Trim(tags.items[i])) <= 20
      [] tags.kind = "array"  -> \A i \in 1..Len(tags.items) : StrLen(tags.items[i]) <= 20
      [] OTHER -> TRUE

\* the value file.tags gets, the schema's trim applied
PutTags(tags) ==
    LET kept == IF tags.kind = "string"
                THEN SelectSeq([i \in 1..Len(tags.items) |-> Trim(tags.items[i])],
                               LAMBDA t : StrLen(t) > 0)
                ELSE SelectSeq(tags.items, LAMBDA t : StrLen(Trim(t)) > 0)
    IN [i \in 1..Len(kept) |-> Trim(kept[i])]

\* a check that lets an admin through as well
OwnerOrAdminDenied(u, doc) == doc.uploadedBy # u /\ Role(u) # "admin"

\* file.uploadedBy.toString() !== req.user.id
OwnerOnlyDenied(u, doc) == doc.uploadedBy # u

PutFileOutcome(u, f, body) ==
    IF ~(DescriptionValid(body.description) /\ PutTagsValid(body.tags)) THEN "validation"
    ELSE IF f \notin DOMAIN files THEN "notfound"
    ELSE IF OwnerOnlyDenied(u, files[f]) THEN "denied"
    ELSE "ok"

PutFileDoc(doc, body) ==
    [doc EXCEPT
       !.description = IF body.description # JsUndefined THEN Trim(body.description.s) ELSE @,
       !.tags        = IF body.tags.kind # "undefined" THEN PutTags(body.tags) ELSE @,
       !.isPublic    = IF body.isPublic # JsUndefined THEN body.isPublic.b ELSE @]

PutFile(u, f, body) ==
    /\ UNCHANGED <<call, result, accounts, liked, env, nextId, disk, nextChart, charts, pending, answered>>
    /\ IF PutFileOutcome(u, f, body) = "ok"
       THEN /\ files' = [files EXCEPT ![f] = PutFileDoc(@, body)]
            /\ updated' = updated \cup {f}
       ELSE UNCHANGED <<files, updated>>

\* ------------------------------------------------ DELETE /api/files/:id
\* file.uploadedBy.toString() !== req.user.id && req.user.role !== 'admin'
DeleteDenied(u, doc) == doc.uploadedBy # u /\ Role(u) # "admin"

DeleteFileOutcome(u, f) ==
    IF f \notin DOMAIN files THEN "notfound"
    ELSE IF DeleteDenied(u, files[f]) THEN "denied"
    ELSE "accepted"

\* Chart.deleteMany({ fileId })
DeleteChartsOf(cs, f) == [c \in {d \in DOMAIN cs : cs[d].fileId # f} |-> cs[c]]

\* File.findByIdAndDelete / Chart.findByIdAndDelete
DeleteById(coll, id) == [d \in DOMAIN coll \ {id} |-> coll[d]]

\* First segment: findById, the checks, fs.unlink(file.path).
DeleteFile(u, f) ==
    /\ UNCHANGED <<call, result, accounts, liked, env, nextId, nextChart, files, charts, answered, updated>>
    /\ IF DeleteFileOutcome(u, f) = "accepted"
       THEN /\ Cardinality(pending) < MaxPending
            /\ disk' = Unlink(disk, files[f].path)
            /\ pending' = pending \cup {[op |-> "deleteFile", user |-> u, id |-> f]}
       ELSE UNCHANGED <<disk, pending>>

\* Second segment: File.findByIdAndDelete(req.params.id) and the answer 200.
DeleteFileFinish(p) ==
    /\ p \in pending
    /\ p.op = "deleteFile"
    /\ pending' = pending \ {p}
    /\ files' = DeleteById(files, p.id)
    /\ UNCHANGED <<call, result, accounts, liked, env, nextId, disk, nextChart, charts, answered, updated>>

\* ------------------------------------------ DELETE /api/admin/files/:id
\* adminAuth lets only an admin through.
AdminDeleteFileOutcome(f) == IF f \notin DOMAIN files THEN "notfound" ELSE "accepted"

\* First segment: findById, unlink, Chart.deleteMany.
AdminDeleteFile(u, f) ==
    /\ Role(u) = "admin"
    /\ UNCHANGED <<call, result, accounts, liked, env, nextId, nextChart, files, answered, updated>>
    /\ IF AdminDeleteFileOutcome(f) = "accepted"
       THEN /\ Cardinality(pending) < MaxPending
            /\ disk' = Unlink(disk, files[f].path)
            /\ charts' = DeleteChartsOf(charts, f)
            /\ pending' = pending \cup {[op |-> "adminDeleteFile", user |-> u, id |-> f]}
       ELSE UNCHANGED <<disk, charts, pending>>

\* Second segment: File.findByIdAndDelete and the answer 200.
AdminDeleteFileFinish(p) ==
    /\ p \in pending
    /\ p.op = "adminDeleteFile"
    /\ pending' = pending \ {p}
    /\ files' = DeleteById(files, p.id)
    /\ UNCHANGED <<call, result, accounts, liked, env, nextId, disk, nextChart, charts, answered, updated>>

\* -------------------------------------- POST /api/files/:id/reprocess
\* a handler that reprocesses whatever the status
ReprocessAnyStatus(doc) == FALSE

\* file.status !== 'failed'
ReprocessRefused(doc) == doc.status # "failed"

\* a handler that looks at the status before it looks at the owner
ReprocessStatusFirst(u, f) ==
    IF f \notin DOMAIN files THEN "notfound"
    ELSE IF ReprocessRefused(files[f]) THEN "state"
    ELSE IF OwnerOnlyDenied(u, files[f]) THEN "denied"
    ELSE "accepted"

ReprocessOutcome(u, f) ==
    IF f \notin DOMAIN files THEN "notfound"
    ELSE IF OwnerOnlyDenied(u, files[f]) THEN "denied"
    ELSE IF ReprocessRefused(files[f]) THEN "state"
    ELSE "accepted"

\* First segment: findById and the checks.  `request` tells two requests
\* of the uploader apart.
ReprocessFind(u, f) ==
    /\ UNCHANGED <<call, result, accounts, liked, env, nextId, disk, files, nextChart, charts, answered, updated>>
    /\ IF ReprocessOutcome(u, f) = "accepted"
       THEN /\ Cardinality(pending) < MaxPending
            /\ pending' = pending \cup {[op |-> "reprocess", phase |-> "mark", user |-> u,
                                         id |-> f, path |-> files[f].path,
                                         request |-> FreeRequest("reprocess")]}
       ELSE UNCHANGED pending

\* Second segment: file.status = 'processing'; await file.save().  The save
\* of a document deleted in the meantime throws and the handler answers 500.
ReprocessMark(p) ==
    /\ p \in pending
    /\ p.op = "reprocess"
    /\ p.phase = "mark"
    /\ UNCHANGED <<call, result, accounts, liked, env, nextId, disk, nextChart, charts, answered, updated>>
    /\ IF p.id \notin DOMAIN files
       THEN /\ pending' = pending \ {p}
            /\ UNCHANGED files
       ELSE /\ files' = [files EXCEPT ![p.id].status = "processing"]
            /\ pending' = (pending \ {p}) \cup {[p EXCEPT !.phase = "parse"]}

\* The answer of the third segment.
ReprocessAnswer(p, readOk) ==
    IF p.id \notin DOMAIN files THEN 500
    ELSE IF ParseFromDisk(readOk, p.path).ok THEN 200 ELSE 422

\* Third segment: parseExcelFile, the save of the outcome, the answer.
ReprocessParse(p, readOk) ==
    LET parsed == ParseFromDisk(readOk, p.path)
    IN
    /\ p \in pending
    /\ p.op = "reprocess"
    /\ p.phase = "parse"
    /\ pending' = pending \ {p}
    /\ UNCHANGED <<call, result, accounts, liked, env, nextId, disk, nextChart, charts, answered, updated>>
    /\ IF p.id \notin DOMAIN files
       THEN UNCHANGED files
       ELSE files' = [files EXCEPT ![p.id] = SavedAfterParse(@, parsed)]

\* ------------------------------------------------------ POST /api/charts
\* headers.includes(column)
Includes(seq, x) == \E i \in 1..Len(seq) : seq[i] = x

\* zAxis && zAxis.column
HasZ(config) == config.z # JsUndefined /\ config.z.s # EmptyTxt

\* the default palette of generateColors
PaletteLen == 10

\* generateColors(count, colorConfig): the palette index of each colour
generateColors(count) == [i \in 1..count |-> (i - 1) % PaletteLen]

\* The rows whose x and y values are neither null nor undefined push a label.
ChartLabels(rows, config) ==
    LET kept == SelectSeq(rows, LAMBDA row : Present(Prop(row, config.x.s))
                                             /\ Present(Prop(row, config.y.s)))
    IN [i \in 1..Len(kept) |-> Prop(kept[i], config.x.s)]

\* Of these, the rows that push a data point.
ChartPoints(rows, config) ==
    LET kept == SelectSeq(rows, LAMBDA row : Present(Prop(row, config.x.s))
                                             /\ Present(Prop(row, config.y.s)))
        with == SelectSeq(kept, LAMBDA row : HasZ(config) => Present(Prop(row, config.z.s)))
    IN [i \in 1..Len(with) |->
          IF HasZ(config)
          THEN [kind |-> "xyz", x |-> Prop(with[i], config.x.s), y |-> Prop(with[i], config.y.s),
                z |-> Prop(with[i], config.z.s)]
          ELSE [kind |-> "y", x |-> JsUndefined, y |-> Prop(with[i], config.y.s),
                z |-> JsUndefined]]

generateChartData(fileData, config) ==
    [labels |-> ChartLabels(fileData.rows, config),
     data   |-> ChartPoints(fileData.rows, config),
     colors |-> generateColors(Len(ChartPoints(fileData.rows, config)))]

\* a check that lets everybody use every file
ChartFileDeniedNever(u, doc) == FALSE

\* file.uploadedBy.toString() !== req.user.id && !file.isPublic
ChartFileDenied(u, doc) == doc.uploadedBy # u /\ ~doc.isPublic

ChartTypes == {"bar", "line", "pie", "doughnut", "scatter", "bubble", "area", "radar",
               "polarArea", "bar3d", "line3d", "scatter3d", "surface3d"}

\* the validators of POST /api/charts
ChartBodyValid(body) ==
    /\ StrLen(body.title) > 0
    /\ StrLen(Trim(body.title)) >= 1
    /\ StrLen(Trim(body.title)) <= 100
    /\ body.chartType \in ChartTypes
    /\ body.dimension \in {"2d", "3d"}
    /\ body.config.x # JsUndefined /\ body.config.x.s # EmptyTxt
    /\ body.config.y # JsUndefined /\ body.config.y.s # EmptyTxt

CreateChartOutcome(u, body) ==
    LET f == body.fileId
    IN IF ~ChartBodyValid(body) THEN "validation"
       ELSE IF f \notin DOMAIN files THEN "notfound"
       ELSE IF ChartFileDenied(u, files[f]) THEN "denied"
       ELSE IF files[f].status # "completed" THEN "state"
       ELSE IF ~Includes(files[f].processedData.headers, body.config.x.s) THEN "xcolumn"
       ELSE IF ~Includes(files[f].processedData.headers, body.config.y.s) THEN "ycolumn"
       ELSE IF body.dimension = "3d" /\ HasZ(body.config)
               /\ ~Includes(files[f].processedData.headers, body.config.z.s) THEN "zcolumn"
       ELSE "accepted"

\* new Chart({...}) with the schema's defaults
NewChart(u, body, fileData) ==
    [title     |-> Trim(body.title),
     chartType |-> body.chartType,
     dimension |-> body.dimension,
     fileId    |-> body.fileId,
     createdBy |-> u,
     hasZAxis  |-> body.dimension = "3d" /\ body.config.z # JsUndefined,
     chartData |-> generateChartData(fileData, body.config),
     isPublic  |-> FALSE,
     views     |-> 0,
     likes     |-> <<>>]

\* First segment: the checks, generateChartData, chart.save().
CreateChart(u, body, cap) ==
    /\ nextChart <= cap
    /\ UNCHANGED <<call, result, accounts, liked, env, nextId, disk, files, answered, updated>>
    /\ IF CreateChartOutcome(u, body) = "accepted"
       THEN /\ Cardinality(pending) < MaxPending
            /\ charts' = (nextChart :> NewChart(u, body, files[body.fileId].processedData)) @@ charts
            /\ nextChart' = nextChart + 1
            /\ pending' = pending \cup {[op |-> "createChart", user |-> u, id |-> body.fileId,
                                         chart |-> nextChart]}
       ELSE UNCHANGED <<charts, nextChart, pending>>

\* Second segment: file.charts.push(chart._id); await file.save(); 201.
\* The save of a file deleted in the meantime throws (500).
CreateChartFinish(p) ==
    /\ p \in pending
    /\ p.op = "createChart"
    /\ pending' = pending \ {p}
    /\ UNCHANGED <<call, result, accounts, liked, env, nextId, disk, nextChart, charts, answered, updated>>
    /\ IF p.id \in DOMAIN files
       THEN files' = [files EXCEPT ![p.id].charts = Append(@, p.chart)]
       ELSE UNCHANGED files

\* ---------------------------------------------------- GET /api/charts/:id
\* req.user is undefined for an anonymous request (optionalAuth)
Anonymous == "anonymous"

\* !canAccess
ChartDenied(u, chart) ==
    ~(chart.isPublic \/ (u # Anonymous /\ chart.createdBy = u)
                     \/ (u # Anonymous /\ Role(u) = "admin"))

GetChartOutcome(u, c) ==
    IF c \notin DOMAIN charts THEN "notfound"
    ELSE IF ChartDenied(u, charts[c]) THEN "denied"
    ELSE "ok"

\* views counted up to this bound
MaxViews == 1

\* chart.incrementViews() if the requester is not the owner
GetChart(u, c) ==
    /\ UNCHANGED <<call, result, accounts, liked, env, nextId, disk, files, nextChart, pending, answered, updated>>
    /\ IF GetChartOutcome(u, c) = "ok" /\ (u = Anonymous \/ charts[c].createdBy # u)
       THEN /\ charts[c].views < MaxViews
            /\ charts' = [charts EXCEPT ![c].views = @ + 1]
       ELSE UNCHANGED charts

\* ---------------------------------------------------- PUT /api/charts/:id
\* chart.createdBy.toString() !== req.user.id
ChartOwnerOnlyDenied(u, chart) == chart.createdBy # u

\* body('title').optional().trim().isLength({ min: 1, max: 100 })
ChartPutValid(body) ==
    body.title = JsUndefined \/ (StrLen(Trim(body.title.s)) >= 1 /\ StrLen(Trim(body.title.s)) <= 100)

PutChartOutcome(u, c, body) ==
    IF ~ChartPutValid(body) THEN "validation"
    ELSE IF c \notin DOMAIN charts THEN "notfound"
    ELSE IF ChartOwnerOnlyDenied(u, charts[c]) THEN "denied"
    ELSE "ok"

PutChart(u, c, body) ==
    /\ UNCHANGED <<call, result, accounts, liked, env, nextId, disk, files, nextChart, pending, answered, updated>>
    /\ IF PutChartOutcome(u, c, body) = "ok"
       THEN charts' = [charts EXCEPT
                         ![c].title    = IF body.title # JsUndefined THEN Trim(body.title.s) ELSE @,
                         ![c].isPublic = IF body.isPublic # JsUndefined THEN body.isPublic.b ELSE @]
       ELSE UNCHANGED charts

\* ------------------------------------------------- DELETE /api/charts/:id
\* chart.createdBy.toString() !== req.user.id && req.user.role !== 'admin'
ChartDeleteDenied(u, chart) == chart.createdBy # u /\ Role(u) # "admin"

DeleteChartOutcome(u, c) ==
    IF c \notin DOMAIN charts THEN "notfound"
    ELSE IF ChartDeleteDenied(u, charts[c]) THEN "denied"
    ELSE "accepted"

\* File.findByIdAndUpdate(fileId, { $pull: { charts: chart._id } })
PullChart(fs, f, c) ==
    IF f \in DOMAIN fs
    THEN [fs EXCEPT ![f].charts = SelectSeq(@, LAMBDA x : x # c)]
    ELSE fs

\* First segment: findById, the checks, the $pull.
DeleteChart(u, c) ==
    /\ UNCHANGED <<call, result, accounts, liked, env, nextId, disk, nextChart, charts, answered, updated>>
    /\ IF DeleteChartOutcome(u, c) = "accepted"
       THEN /\ Cardinality(pending) < MaxPending
            /\ files' = PullChart(files, charts[c].fileId, c)
            /\ pending' = pending \cup {[op |-> "deleteChart", user |-> u, id |-> c]}
       ELSE UNCHANGED <<files, pending>>

\* Second segment: Chart.findByIdAndDelete and the answer 200.
DeleteChartFinish(p) ==
    /\ p \in pending
    /\ p.op = "deleteChart"
    /\ pending' = pending \ {p}
    /\ charts' = DeleteById(charts, p.id)
    /\ UNCHANGED <<call, result, accounts, liked, env, nextId, disk, files, nextChart, answered, updated>>

\* ------------------------------------------- DELETE /api/admin/charts/:id
AdminDeleteChartOutcome(c) == IF c \notin DOMAIN charts THEN "notfound" ELSE "accepted"

AdminDeleteChart(u, c) ==
    /\ Role(u) = "admin"
    /\ UNCHANGED <<call, result, accounts, liked, env, nextId, disk, nextChart, charts, answered, updated>>
    /\ IF AdminDeleteChartOutcome(c) = "accepted"
       THEN /\ Cardinality(pending) < MaxPending
            /\ files' = PullChart(files, charts[c].fileId, c)
            /\ pending' = pending \cup {[op |-> "adminDeleteChart", user |-> u, id |-> c]}
       ELSE UNCHANGED <<files, pending>>

AdminDeleteChartFinish(p) ==
    /\ p \in pending
    /\ p.op = "adminDeleteChart"
    /\ pending' = pending \ {p}
    /\ charts' = DeleteById(charts, p.id)
    /\ UNCHANGED <<call, result, accounts, liked, env, nextId, disk, files, nextChart, answered, updated>>

\* ----------------------------------------------- POST /api/charts/:id/like
LikeChartOutcome(u, c) ==
    IF c \notin DOMAIN charts THEN "notfound"
    ELSE IF ~charts[c].isPublic THEN "notpublic"
    ELSE "ok"

\* ChartSchema.virtual('likesCount')
likesCount(chart) == Len(chart.likes)

\* ChartSchema.methods.toggleLike
toggleLike(likes, u) ==
    IF Includes(likes, u)
    THEN LET at == CHOOSE i \in 1..Len(likes) :
                       likes[i] = u /\ \A j \in 1..(i - 1) : likes[j] # u
         IN SubSeq(likes, 1, at - 1) \o SubSeq(likes, at + 1, Len(likes))
    ELSE Append(likes, u)

\* First segment: Chart.findById and the checks; the handler holds the
\* document it has loaded.  `request` tells two requests of one user apart.
LikeChart(u, c) ==
    /\ UNCHANGED <<call, result, accounts, liked, env, nextId, disk, files, nextChart, charts, answered, updated>>
    /\ IF LikeChartOutcome(u, c) = "ok"
       THEN /\ Cardinality(pending) < MaxPending
            /\ pending' = pending \cup {[op |-> "like", user |-> u, id |-> c,
                                         likes |-> charts[c].likes, stale |-> FALSE,
                                         request |-> FreeRequest("like")]}
       ELSE UNCHANGED pending

\* this.save() after toggleLike on the loaded document.  A push is sent as
\* $push and lands whatever the stored array has become; a splice is sent
\* as a $set of the array under the version the document was loaded with,
\* and fails (500) when another save has changed the array since.
SaveLikes(stored, p) ==
    IF ~Includes(p.likes, p.user) THEN Append(stored, p.user)
    ELSE IF p.stale THEN stored
    ELSE toggleLike(p.likes, p.user)

\* Second segment: toggleLike, the save, the answer.
LikeChartSave(p) ==
    LET saved == p.id \in DOMAIN charts /\ ~(Includes(p.likes, p.user) /\ p.stale)
    IN
    /\ p \in pending
    /\ p.op = "like"
    /\ UNCHANGED <<call, result, accounts, env, nextId, disk, files, nextChart, answered, updated>>
    /\ IF saved
       THEN /\ charts' = [charts EXCEPT ![p.id].likes = SaveLikes(@, p)]
            /\ liked' = IF <<p.id, p.user>> \in liked THEN liked \ {<<p.id, p.user>>}
                        ELSE liked \cup {<<p.id, p.user>>}
            /\ pending' = {IF q.op = "like" /\ q.id = p.id THEN [q EXCEPT !.stale = TRUE] ELSE q :
                              q \in pending \ {p}}
       ELSE /\ pending' = pending \ {p}
            /\ UNCHANGED <<charts, liked>>

\* ------------------------------------------------------- GET /api/charts
\* isPublic = req.query.public === 'true'; without it an anonymous request
\* is answered 401.
ListChartsOutcome(u, q) ==
    IF q.public = "true" THEN "ok"
    ELSE IF u # Anonymous THEN "ok"
    ELSE "unauthorized"

\* this.find(query).sort(...): the matching ids in descending order of
\* their sort keys, key[c] = <<first sort field, createdAt>>
Sorted(S, key) ==
    CHOOSE s \in [1..Cardinality(S) -> S] :
        \A i, j \in 1..Cardinality(S) :
            i < j => /\ s[i] # s[j]
                     /\ \/ key[s[i]][1] > key[s[j]][1]
                        \/ (key[s[i]][1] = key[s[j]][1] /\ key[s[i]][2] > key[s[j]][2])

\* if (chartType) query.chartType = chartType
TypeMatches(chart, chartType) == chartType = "" \/ chart.chartType = chartType

\* .limit(limit * 1).skip((page - 1) * limit) and the counts
Page(found, page, limit) ==
    [charts      |-> Slice(found, (page - 1) * limit, (page - 1) * limit + limit),
     totalPages  |-> CeilDiv(Len(found), limit),
     currentPage |-> page,
     total       |-> Len(found)]

\* a query that forgets the creator
getUserChartsOfAnyone(userId, page, limit, chartType) ==
    Page(Sorted({c \in DOMAIN charts : TypeMatches(charts[c], chartType)},
                [c \in DOMAIN charts |-> <<0, c>>]),
         page, limit)

\* ChartSchema.statics.getUserCharts: { createdBy: userId }, newest first
getUserCharts(userId, page, limit, chartType) ==
    Page(Sorted({c \in DOMAIN charts : /\ charts[c].createdBy = userId
                                        /\ TypeMatches(charts[c], chartType)},
                [c \in DOMAIN charts |-> <<0, c>>]),
         page, limit)

\* ChartSchema.statics.getPublicCharts: { isPublic: true }, most viewed first
getPublicCharts(page, limit, chartType) ==
    Page(Sorted({c \in DOMAIN charts : /\ charts[c].isPublic
                                        /\ TypeMatches(charts[c], chartType)},
                [c \in DOMAIN charts |-> <<charts[c].views, c>>]),
         page, limit)

\* the body of the 200 answer
ListChartsBody(u, q) ==
    IF q.public = "true"
    THEN getPublicCharts(QueryInt(q.page, 1), QueryInt(q.limit, 10), q.type)
    ELSE getUserCharts(u, QueryInt(q.page, 1), QueryInt(q.limit, 10), q.type)

ListCharts(u, q) ==
    /\ ListChartsOutcome(u, q) \in {"ok", "unauthorized"}
    /\ UNCHANGED vars

\* ------------------------------------------ PUT /api/admin/users/:id/role
\* User.findByIdAndUpdate(id, update, { new: true }): the stored document is
\* updated when it exists
UpdateUser(us, id, field, value) ==
    IF id \in DOMAIN us THEN [us EXCEPT ![id][field] = value] ELSE us

\* How the handler ends; the check of the admin's own id follows the update.
PutUserRoleOutcome(u, id, role) ==
    IF role \notin {"user", "admin"} THEN "invalidrole"
    ELSE IF id \notin DOMAIN accounts THEN "notfound"
    ELSE IF id = u /\ role = "user" THEN "self"
    ELSE "ok"

\* adminAuth lets only an admin through.
PutUserRole(u, id, role) ==
    /\ Role(u) = "admin"
    /\ UNCHANGED <<call, result, liked, env, nextId, disk, files, nextChart, charts, pending,
                   answered, updated>>
    /\ IF PutUserRoleOutcome(u, id, role) = "invalidrole"
       THEN UNCHANGED accounts
       ELSE accounts' = UpdateUser(accounts, id, "role", role)

\* ---------------------------------------- PUT /api/admin/users/:id/status
\* typeof isActive !== 'boolean'
PutUserStatusOutcome(u, id, isActive) ==
    IF isActive \notin {JsBool(TRUE), JsBool(FALSE)} THEN "notboolean"
    ELSE IF id \notin DOMAIN accounts THEN "notfound"
    ELSE IF id = u /\ ~isActive.b THEN "self"
    ELSE "ok"

PutUserStatus(u, id, isActive) ==
    /\ Role(u) = "admin"
    /\ UNCHANGED <<call, result, liked, env, nextId, disk, files, nextChart, charts, pending,
                   answered, updated>>
    /\ IF PutUserStatusOutcome(u, id, isActive) = "notboolean"
       THEN UNCHANGED accounts
       ELSE accounts' = UpdateUser(accounts, id, "isActive", isActive.b)

\* ------------------------------------------------------------- requests
XlsxMime == "application/vnd.openxmlformats-officedocument.spreadsheetml.sheet"
XlsMime  == "application/vnd.ms-excel"

NameXlsx == <<"a", ".", "x", "l", "s", "x">>

\* A workbook as XLSX.readFile and sheet_to_json({ header: 1, defval: null })
\* give it: header "x", " y " and an empty cell; a blank row between two data rows.
WbGood ==
    [SheetNames |-> <<Word("S1")>>,
     json |-> << <<JsStr(Word("x")), JsStr(Txt(1, "y", 1)), JsNull>>,
                 <<JsStr(Word("q")), JsStr(Word("12")), JsStr(Word("7"))>>,
                 <<JsNull, JsStr(EmptyTxt), JsNull>>,
                 <<JsStr(Word("r")), JsNull, JsStr(Word("2020-01-05"))>> >>]

\* A workbook whose first sheet has no row: 'Excel file is empty'
WbEmptySheet == [SheetNames |-> <<Word("S1")>>, json |-> <<>>]

\* A workbook without sheets: validateExcelFile refuses it
WbNoSheets == [SheetNames |-> <<>>, json |-> <<>>]

UploadRequest(field, name, mime, size, wb, description, tags) ==
    [field |-> field,
     file  |-> [originalname |-> name, mimetype |-> mime, size |-> size, wb |-> wb],
     body  |-> [description |-> description, tags |-> tags]]

BaseDescription == JsStr(Txt(1, "ab", 1))
BaseTags == <<Txt(0, "q", 1), EmptyTxt, Txt(1, "r", 0)>>

\* the size of an ordinary spreadsheet
BaseSize == 2 * 1024

BaseUpload(wb) ==
    UploadRequest(UploadField, NameXlsx, XlsxMime, BaseSize, wb, BaseDescription, BaseTags)

\* The uploads of the life-cycle specification: a good workbook, one whose
\* parse throws, and a good workbook sent with a description of 501 characters.
CoreUploads ==
    {BaseUpload(WbGood),
     BaseUpload(WbEmptySheet),
     UploadRequest(UploadField, NameXlsx, XlsxMime, BaseSize, WbGood, JsStr(Word("desc501")), <<>>)}

NoTags == [kind |-> "undefined", items |-> <<>>]

CorePuts ==
    {[description |-> JsUndefined, tags |-> NoTags, isPublic |-> JsBool(TRUE)],
     [description |-> JsStr(Txt(0, "z", 2)), tags |-> [kind |-> "string", items |-> <<Txt(1, "z", 0)>>],
      isPublic |-> JsUndefined],
     [description |-> JsStr(Word("desc501")), tags |-> NoTags, isPublic |-> JsUndefined]}

ChartBody(f, dimension, x, y, z) ==
    [title |-> Txt(1, "ab", 0), chartType |-> "bar", dimension |-> dimension, fileId |-> f,
     config |-> [x |-> x, y |-> y, z |-> z]]

CoreChartBodies ==
    UNION {{ChartBody(f, "2d", JsStr(Word("x")), JsStr(Word("y")), JsUndefined),
            ChartBody(f, "2d", JsStr(Word("x")), JsStr(Word("z")), JsUndefined),
            ChartBody(f, "3d", JsStr(Word("x")), JsStr(Word("y")), JsStr(Word("Column_3"))),
            ChartBody(f, "2d", JsStr(Word("x")), JsStr(EmptyTxt), JsUndefined)} : f \in FileIds}

\* Bodies that name a z column: a 3d chart whose z column is empty in one
\* row; a 2d chart sent with a z column that is a header; a 2d and a 3d chart
\* sent with a z column that is no header.
AxisChartBodies ==
    UNION {{ChartBody(f, "3d", JsStr(Word("x")), JsStr(Word("Column_3")), JsStr(Word("y"))),
            ChartBody(f, "2d", JsStr(Word("x")), JsStr(Word("y")), JsStr(Word("Column_3"))),
            ChartBody(f, "2d", JsStr(Word("x")), JsStr(Word("y")), JsStr(Word("z"))),
            ChartBody(f, "3d", JsStr(Word("x")), JsStr(Word("y")), JsStr(Word("z")))} : f \in FileIds}

CoreChartPuts ==
    {[title |-> JsUndefined, isPublic |-> JsBool(TRUE)],
     [title |-> JsStr(EmptyTxt), isPublic |-> JsUndefined]}

PageQueries == {NaN, 2}
LimitQueries == {NaN, 1}

\* --------------------------------------------------- the specifications
\* After start-up: empty collections, an empty uploads directory, no request in flight.
Start ==
    /\ nextId = 1
    /\ disk = EmptyMap
    /\ files = EmptyMap
    /\ nextChart = 1
    /\ charts = EmptyMap
    /\ pending = {}
    /\ answered = EmptyMap
    /\ updated = {}
    /\ accounts = [u \in Users |-> [role |-> IF u = "admin" THEN "admin" ELSE "user",
                                  isActive |-> TRUE]]
    /\ liked = {}

NoCall == [headers |-> <<>>, rows |-> <<>>]
NoResult == [returned |-> FALSE]

\* MAX_FILE_SIZE is not set, no direct call of the parser
Init == env = <<>> /\ call = NoCall /\ result = NoResult /\ Start

Next ==
    \/ \E u \in Users, rq \in CoreUploads, readOk \in BOOLEAN : UploadReceive(u, rq, readOk, MaxFiles)
    \/ \E p \in pending, readOk \in BOOLEAN : UploadProcess(p, readOk)
    \/ \E u \in Users, f \in FileIds : GetFile(u, f)
    \/ \E u \in Users, f \in FileIds, pageQ \in PageQueries, limitQ \in LimitQueries :
           GetFileData(u, f, pageQ, limitQ)
    \/ \E u \in Users, f \in FileIds, body \in CorePuts : PutFile(u, f, body)
    \/ \E u \in Users, f \in FileIds : DeleteFile(u, f)
    \/ \E p \in pending : DeleteFileFinish(p)
    \/ \E u \in Users, f \in FileIds : AdminDeleteFile(u, f)
    \/ \E p \in pending : AdminDeleteFileFinish(p)
    \/ \E u \in Users, f \in FileIds : ReprocessFind(u, f)
    \/ \E p \in pending : ReprocessMark(p)
    \/ \E p \in pending, readOk \in BOOLEAN : ReprocessParse(p, readOk)
    \/ \E u \in Users, body \in CoreChartBodies \cup AxisChartBodies :
           CreateChart(u, body, MaxCharts)
    \/ \E p \in pending : CreateChartFinish(p)

Spec == Init /\ [][Next]_vars

\* Every handler of the file, chart and admin routes that takes an id, over
\* one stored file and one chart.
\* One user sends the likes here; SpecLikes has every user send them.
NextRoutes ==
    \/ \E u \in Users, rq \in CoreUploads, readOk \in BOOLEAN :
           UploadReceive(u, rq, readOk, MaxRouteFiles)
    \/ \E p \in pending, readOk \in BOOLEAN : UploadProcess(p, readOk)
    \/ \E u \in Users, f \in FileIds : GetFile(u, f)
    \/ \E u \in Users, f \in FileIds, pageQ \in PageQueries, limitQ \in LimitQueries :
           GetFileData(u, f, pageQ, limitQ)
    \/ \E u \in Users, f \in FileIds, body \in CorePuts : PutFile(u, f, body)
    \/ \E u \in Users, f \in FileIds : DeleteFile(u, f)
    \/ \E p \in pending : DeleteFileFinish(p)
    \/ \E u \in Users, f \in FileIds : AdminDeleteFile(u, f)
    \/ \E p \in pending : AdminDeleteFileFinish(p)
    \/ \E u \in Users, f \in FileIds : ReprocessFind(u, f)
    \/ \E p \in pending : ReprocessMark(p)
    \/ \E p \in pending, readOk \in BOOLEAN : ReprocessParse(p, readOk)
    \/ \E u \in Users, body \in CoreChartBodies : CreateChart(u, body, MaxCharts)
    \/ \E p \in pending : CreateChartFinish(p)
    \/ \E u \in Users \cup {Anonymous}, c \in ChartIds : GetChart(u, c)
    \/ \E u \in Users, c \in ChartIds, body \in CoreChartPuts : PutChart(u, c, body)
    \/ \E u \in Users, c \in ChartIds : DeleteChart(u, c)
    \/ \E p \in pending : DeleteChartFinish(p)
    \/ \E u \in Users, c \in ChartIds : AdminDeleteChart(u, c)
    \/ \E p \in pending : AdminDeleteChartFinish(p)
    \/ \E c \in ChartIds : LikeChart("u2", c)
    \/ \E p \in pending : LikeChartSave(p)

SpecRoutes == Init /\ [][NextRoutes]_vars

\* ------------------------------------------------------- the upload gate
NameUpper  == <<"a", ".", "X", "L", "S", "X">>
NameXls    == <<"a", ".", "x", "l", "s">>

UploadWith(name, mime, size, wb, description, tags) ==
    UploadRequest(UploadField, name, mime, size, wb, description, tags)

\* every MIME type with every name
FilterUploads ==
    {UploadWith(name, mime, BaseSize, WbGood, BaseDescription, BaseTags) :
        name \in {NameXlsx, NameUpper, NameXls,
                  <<".", "x", "l", "s">>,
                  <<"a", ".", "c", "s", "v">>,
                  <<"a", ".", "x", "l", "s", ".", "c", "s", "v">>,
                  <<"x", "l", "s", "x">>},
        mime \in {XlsxMime, XlsMime, "text/csv"}}

\* sizes around the limits, with a valid and with an invalid body
SizeUploads ==
    {UploadWith(NameXlsx, XlsxMime, size, WbGood, description, <<>>) :
        size \in {10, 11, 5242880, 5242881, TenMB - 1, TenMB, TenMB + 1, 20971520, 20971521},
        description \in {JsUndefined, JsStr(Word("desc501"))}}

\* the bodies and the workbooks
BodyUploads ==
    {UploadWith(NameXls, XlsMime, BaseSize, wb, description, tags) :
        wb \in {WbGood, WbEmptySheet, WbNoSheets},
        description \in {JsUndefined, JsStr(Txt(2, "", 1))},
        tags \in {<<>>, <<EmptyTxt>>, <<Word("tag21")>>, <<Txt(1, "ab", 1), Word("q")>>}}

\* no file part; a file part under another field name
FieldUploads ==
    {UploadRequest(field, NameXlsx, XlsxMime, BaseSize, WbGood, description, <<>>) :
        field \in {"none", "file"},
        description \in {JsUndefined, JsStr(Word("desc501"))}}

GateUploads == FilterUploads \cup SizeUploads \cup BodyUploads \cup FieldUploads

\* MAX_FILE_SIZE: unset, "0", "5242880", "20971520", "10mb"
EnvValues ==
    {<<>>, <<"0">>, <<"5", "2", "4", "2", "8", "8", "0">>,
     <<"2", "0", "9", "7", "1", "5", "2", "0">>, <<"1", "0", "m", "b">>}

InitUpload == env \in EnvValues /\ call = NoCall /\ result = NoResult /\ Start

NextUpload ==
    \/ \E u \in Users, rq \in GateUploads, readOk \in BOOLEAN :
           UploadReceive(u, rq, readOk, MaxGateFiles)
    \/ \E p \in pending, readOk \in BOOLEAN : UploadProcess(p, readOk)
    \/ \E u \in Users, f \in FileIds : GetFile(u, f)
    \/ \E u \in Users, f \in FileIds : DeleteFile(u, f)
    \/ \E p \in pending : DeleteFileFinish(p)

SpecUpload == InitUpload /\ [][NextUpload]_vars

\* --------------------------------------------- analyzeColumns on its own
\* The values a cell of a row object can hold.
CellValues ==
    {JsStr(Word("q")), JsStr(EmptyTxt), JsNum(7), JsDate(Word("2020-01-05")),
     JsBool(TRUE), JsObject, JsNull, JsUndefined}

\* Row objects with a value under "x" and none under "y".
ColumnRows(values) == [i \in 1..Len(values) |-> (Word("x") :> values[i])]

AnalyzeCalls ==
    {[headers |-> <<Word("x"), Word("y")>>, rows |-> ColumnRows(values)] :
        values \in UNION {[1..n -> CellValues] : n \in 0..MaxRows}}

InitAnalyze == env = <<>> /\ call \in AnalyzeCalls /\ result = NoResult /\ Start

\* ExcelParser.analyzeColumns(headers, rows)
AnalyzeColumnsCall ==
    /\ result = NoResult
    /\ result' = [returned |-> TRUE, analysis |-> analyzeColumns(call.headers, call.rows)]
    /\ UNCHANGED <<call, accounts, liked, env, nextId, disk, files, nextChart, charts, pending, answered, updated>>

SpecAnalyze == InitAnalyze /\ [][AnalyzeColumnsCall]_vars

\* ------------------------------------------------- the charts of one file
\* Chart documents ever created while the chart routes are exercised.
MaxListCharts == 2

ListChartIds == 1..MaxListCharts

\* The bodies of POST /api/charts against the file of WbGood (headers x, y,
\* Column_3): a 2d chart, a 3d chart, an unknown y column.
ListChartBodies ==
    {ChartBody(1, "2d", JsStr(Word("x")), JsStr(Word("y")), JsUndefined),
     ChartBody(1, "3d", JsStr(Word("x")), JsStr(Word("y")), JsStr(Word("Column_3"))),
     ChartBody(1, "2d", JsStr(Word("x")), JsStr(Word("z")), JsUndefined)}

\* req.query of GET /api/charts
ListQueries ==
    {[public |-> pub, type |-> tp.type, page |-> tp.page, limit |-> tp.limit] :
        pub \in {"true", "false"},
        tp \in {[type |-> "", page |-> NaN, limit |-> NaN],
                [type |-> "", page |-> 2, limit |-> 1],
                [type |-> "pie", page |-> NaN, limit |-> NaN]}}

\* After u1's upload of WbGood has been parsed and answered 201.
InitCharts ==
    LET rq  == BaseUpload(WbGood)
        doc == WithParsed(NewFile(1, "u1", rq.file, rq.body),
                          parseExcelFile(TRUE, rq.file.size, rq.file.wb))
    IN /\ env = <<>> /\ call = NoCall /\ result = NoResult
       /\ nextId = 2
       /\ disk = (1 :> [size |-> rq.file.size, wb |-> rq.file.wb])
       /\ files = (1 :> doc)
       /\ nextChart = 1
       /\ charts = EmptyMap
       /\ pending = {}
       /\ answered = (1 :> [status |-> 201, fileId |-> 1, file |-> UploadBody(1, doc)])
       /\ updated = {}
       /\ accounts = [u \in Users |-> [role |-> IF u = "admin" THEN "admin" ELSE "user",
                                       isActive |-> TRUE]]
       /\ liked = {}

NextCharts ==
    \/ \E u \in Users, body \in ListChartBodies : CreateChart(u, body, MaxListCharts)
    \/ \E p \in pending : CreateChartFinish(p)
    \/ \E u \in Users, body \in {b \in CorePuts : b.isPublic # JsUndefined} : PutFile(u, 1, body)
    \/ \E u \in Users \cup {Anonymous}, c \in ListChartIds : GetChart(u, c)
    \/ \E u \in Users \cup {Anonymous}, q \in ListQueries : ListCharts(u, q)
    \/ \E u \in Users, c \in ListChartIds, body \in CoreChartPuts : PutChart(u, c, body)
    \/ \E u \in Users, c \in ListChartIds : DeleteChart(u, c)
    \/ \E p \in pending : DeleteChartFinish(p)
    \/ \E u \in Users, c \in ListChartIds : AdminDeleteChart(u, c)
    \/ \E p \in pending : AdminDeleteChartFinish(p)
    \/ \E u \in Users : AdminDeleteFile(u, 1)
    \/ \E p \in pending : AdminDeleteFileFinish(p)

SpecCharts == InitCharts /\ [][NextCharts]_vars

\* --------------------------------------------------- the likes of one chart
\* After u1's upload of WbGood and u1's POST /api/charts of a 2d chart.
InitLikes ==
    LET rq   == BaseUpload(WbGood)
        doc  == WithParsed(NewFile(1, "u1", rq.file, rq.body),
                           parseExcelFile(TRUE, rq.file.size, rq.file.wb))
        body == ChartBody(1, "2d", JsStr(Word("x")), JsStr(Word("y")), JsUndefined)
    IN /\ env = <<>> /\ call = NoCall /\ result = NoResult
       /\ nextId = 2
       /\ disk = (1 :> [size |-> rq.file.size, wb |-> rq.file.wb])
       /\ files = (1 :> [doc EXCEPT !.charts = <<1>>])
       /\ nextChart = 2
       /\ charts = (1 :> NewChart("u1", body, doc.processedData))
       /\ pending = {}
       /\ answered = (1 :> [status |-> 201, fileId |-> 1, file |-> UploadBody(1, doc)])
       /\ updated = {}
       /\ accounts = [u \in Users |-> [role |-> IF u = "admin" THEN "admin" ELSE "user",
                                       isActive |-> TRUE]]
       /\ liked = {}

NextLikes ==
    \/ \E u \in Users, body \in CoreChartPuts : PutChart(u, 1, body)
    \/ \E u \in Users : LikeChart(u, 1)
    \/ \E p \in pending : LikeChartSave(p)
    \/ \E u \in Users : DeleteChart(u, 1)
    \/ \E p \in pending : DeleteChartFinish(p)

SpecLikes == InitLikes /\ [][NextLikes]_vars

\* ------------------------------------------------------- the admin routes
\* req.params.id: the users and an id that no user has
UserIds == Users \cup {"nobody"}

\* req.body.role and req.body.isActive
RoleValues == {"user", "admin", "analyst"}
ActiveValues == {JsBool(TRUE), JsBool(FALSE), JsStr(Word("true")), JsUndefined}

\* The admin routes over u1's file and chart.
NextAdmin ==
    \/ \E u \in Users, id \in UserIds, role \in RoleValues : PutUserRole(u, id, role)
    \/ \E u \in Users, id \in UserIds, isActive \in ActiveValues : PutUserStatus(u, id, isActive)
    \/ \E u \in Users : AdminDeleteFile(u, 1)
    \/ \E p \in pending : AdminDeleteFileFinish(p)
    \/ \E u \in Users : AdminDeleteChart(u, 1)
    \/ \E p \in pending : AdminDeleteChartFinish(p)

SpecAdmin == InitLikes /\ [][NextAdmin]_vars

\* ------------------------------------------- the pages of one file's rows
\* Data rows of the spreadsheet whose pages are asked for.
MaxPageRows == 4

\* A workbook with a header row and n data rows
WbRows(n) ==
    [SheetNames |-> <<Word("S1")>>,
     json |-> << <<JsStr(Word("x"))>> >> \o [i \in 1..n |-> <<JsStr(Word("q"))>>]]

\* req.query.page and req.query.limit after parseInt
PageValues == {NaN, 0} \cup 1..(MaxPageRows + 1)
LimitValues == {NaN, 0} \cup 1..(MaxPageRows + 1)

\* After u1's upload of a spreadsheet of n rows has been parsed and answered
\* 201, with a GET /api/files/1/data on its way.
InitPages ==
    \E n \in 0..MaxPageRows :
        LET rq  == BaseUpload(WbRows(n))
            doc == WithParsed(NewFile(1, "u1", rq.file, rq.body),
                              parseExcelFile(TRUE, rq.file.size, rq.file.wb))
        IN /\ env = <<>>
           /\ call \in [user : Users, file : {1}, page : PageValues, limit : LimitValues]
           /\ result = NoResult
           /\ nextId = 2
           /\ disk = (1 :> [size |-> rq.file.size, wb |-> rq.file.wb])
           /\ files = (1 :> doc)
           /\ nextChart = 1
           /\ charts = EmptyMap
           /\ pending = {}
           /\ answered = (1 :> [status |-> 201, fileId |-> 1, file |-> UploadBody(1, doc)])
           /\ updated = {}
           /\ accounts = [u \in Users |-> [role |-> IF u = "admin" THEN "admin" ELSE "user",
                                           isActive |-> TRUE]]
           /\ liked = {}

\* res.json of GET /api/files/:id/data for the request on its way
GetFileDataAnswer ==
    /\ result = NoResult
    /\ UNCHANGED <<call, accounts, liked, env, nextId, disk, files, nextChart, charts, pending,
                   answered, updated>>
    /\ result' = [returned |-> TRUE,
                  status   |-> StatusOf(GetFileDataOutcome(call.user, call.file)),
                  data     |-> IF GetFileDataOutcome(call.user, call.file) = "ok"
                               THEN GetFileDataBody(call.file, call.page, call.limit)
                               ELSE <<>>]

SpecPages == InitPages /\ [][GetFileDataAnswer]_vars

\* ------------------------------------------------------------ the claims
\* C1 (as stated): after a successful DELETE of a file, through
\* DELETE /api/files/:id by its uploader or an admin or through
\* DELETE /api/admin/files/:id, the File record no longer exists and no
\* Chart whose fileId is that file remains.
C1_DeleteCascades ==
    [][\A p \in pending :
          (DeleteFileFinish(p) \/ AdminDeleteFileFinish(p))
              => /\ p.id \notin DOMAIN files'
                 /\ \A c \in DOMAIN charts' : charts'[c].fileId # p.id]_vars

\* C2: when parseExcelFile throws during POST /api/files/upload (and the
\* record was not deleted while the request was in flight), the File record
\* is kept with status 'failed', the answer is 422 with that record's
\* fileId, the handler leaves the uploaded file on disk, and a reprocess
\* by the uploader is then accepted (neither 400 nor 404).
C2_ParseFailureKeepsRecord ==
    [][\A p \in pending, readOk \in BOOLEAN :
          (/\ p.op = "upload"
           /\ p.id \in DOMAIN files
           /\ ~ParseFromDisk(readOk, p.doc.path).ok
           /\ UploadProcess(p, readOk))
              => /\ p.id \in DOMAIN files'
                 /\ files'[p.id].status = "failed"
                 /\ answered'[p.id].status = 422
                 /\ answered'[p.id].fileId = p.id
                 /\ disk' = disk
                 /\ (ReprocessOutcome(files[p.id].uploadedBy, p.id))' = "accepted"]_vars

\* C2 witness: an upload answered 422 whose record is 'failed' and whose file is on disk
C2_Witness ==
    \E f \in DOMAIN answered \cap DOMAIN files :
        /\ answered[f].status = 422
        /\ files[f].status = "failed"
        /\ files[f].path \in DOMAIN disk
        /\ ReprocessOutcome(files[f].uploadedBy, f) = "accepted"

\* C3 (as stated): for a file whose status is not 'failed' the reprocess
\* route answers 400.
C3_NotFailedAnswers400 ==
    \A u \in Users, f \in DOMAIN files :
        files[f].status # "failed" => StatusOf(ReprocessOutcome(u, f)) = 400

\* C3 (amended): a reprocess is started only on a file whose status is
\* 'failed'; on a file in any other status the request is answered 400 to
\* the uploader and 403 to every other user, and it leaves the stored file
\* (status, processedData, metadata) as it was.
C3_ReprocessOnlyFailed ==
    /\ [](\A u \in Users, f \in DOMAIN files :
             files[f].status # "failed"
                 => StatusOf(ReprocessOutcome(u, f)) =
                        IF u = files[f].uploadedBy THEN 400 ELSE 403)
    /\ [][\/ UNCHANGED <<files, pending>>
          \/ \A u \in Users, f \in DOMAIN files :
                (files[f].status # "failed") => ~ReprocessFind(u, f)]_vars

\* C3 witness: a reprocess has put a failed file in 'processing'; a second
\* request for it now meets a status other than 'failed'
C3_Witness ==
    \E p \in pending :
        /\ p.op = "reprocess"
        /\ p.phase = "parse"
        /\ p.id \in DOMAIN files
        /\ files[p.id].status = "processing"
        /\ StatusOf(ReprocessOutcome(files[p.id].uploadedBy, p.id)) = 400

\* C4: the upload filter accepts a file only when its MIME type is one of
\* the two Excel MIME types and its lower-cased extension is .xls or .xlsx;
\* every other upload is answered 400 and creates no File record (and
\* leaves nothing on disk).
C4_ExcelType(file) ==
    /\ file.mimetype \in {XlsMime, XlsxMime}
    /\ ToLowerCase(ExtName(file.originalname)) \in {<<".", "x", "l", "s">>, <<".", "x", "l", "s", "x">>}

C5_OversizedNeverKept ==
    /\ \A f \in DOMAIN files : files[f].size <= TenMB
    /\ \A rq \in GateUploads, readOk \in BOOLEAN :
          (rq.field = UploadField /\ rq.file.size > TenMB)
              => StatusOf(UploadOutcome(rq, readOk)) = 400
    /\ \A path \in DOMAIN disk : disk[path].size <= TenMB
    /\ \A rq \in GateUploads :
          rq.file.size = TenMB => validateExcelFile(TRUE, rq.file.size, rq.file.wb)

\* C6: after POST /api/files/upload is answered 201, a GET /api/files/:id
\* by the uploader, with no update (and no delete) of the file in between,
\* returns a file whose filename, originalName, size, status, description,
\* tags, processedData.headers, processedData.totalRows and
\* processedData.totalColumns equal the values of the upload response.
C6_UploadThenFetch ==
    \A f \in DOMAIN answered :
        (answered[f].status = 201 /\ f \in DOMAIN files /\ f \notin updated)
            => /\ GetFileOutcome(files[f].uploadedBy, f) = "ok"
               /\ GetFileBody(f).filename = answered[f].file.filename
               /\ GetFileBody(f).originalName = answered[f].file.originalName
               /\ GetFileBody(f).size = answered[f].file.size
               /\ GetFileBody(f).status = answered[f].file.status
               /\ GetFileBody(f).description = answered[f].file.description
               /\ GetFileBody(f).tags = answered[f].file.tags
               /\ GetFileBody(f).processedData.headers = answered[f].file.headers
               /\ GetFileBody(f).processedData.totalRows = answered[f].file.totalRows
               /\ GetFileBody(f).processedData.totalColumns = answered[f].file.totalColumns

\* C6 witness: a file answered 201 and not updated since, whose description
\* and tags were trimmed and whose sheet gave three headers and two rows
C6_Witness ==
    \E f \in DOMAIN answered \cap DOMAIN files :
        /\ answered[f].status = 201
        /\ f \notin updated
        /\ files[f].description = Word("ab")
        /\ files[f].tags = <<Word("q"), Word("r")>>
        /\ Len(files[f].processedData.headers) = 3
        /\ files[f].processedData.totalRows = 2

C8_Count(header, ty) ==
    Cardinality({i \in 1..Len(call.rows) :
                    /\ NonEmpty(Prop(call.rows[i], header))
                    /\ TypeOf(Prop(call.rows[i], header)) = ty})

C8_Majority(header) ==
    LET best == CHOOSE k \in 1..Len(TypeOrder) :
                    /\ \A j \in 1..Len(TypeOrder) :
                          C8_Count(header, TypeOrder[j]) <= C8_Count(header, TypeOrder[k])
                    /\ \A j \in (k + 1)..Len(TypeOrder) :
                          C8_Count(header, TypeOrder[j]) < C8_Count(header, TypeOrder[k])
    IN TypeOrder[best]

C8_MajorityType ==
    result.returned =>
        \A i \in 1..Len(call.headers) :
            /\ result.analysis[call.headers[i]].dataType = C8_Majority(call.headers[i])
            /\ (\A r \in 1..Len(call.rows) : ~NonEmpty(Prop(call.rows[r], call.headers[i])))
                  => result.analysis[call.headers[i]].dataType = "null"

\* C8 witness: a column with two strings and two numbers is reported as
\* 'number', and the column without values as 'null'
C8_Witness ==
    /\ result.returned
    /\ C8_Count(Word("x"), "string") = 2
    /\ C8_Count(Word("x"), "number") = 2
    /\ result.analysis[Word("x")].dataType = "number"
    /\ result.analysis[Word("y")].dataType = "null"

\* C10: the parsed rows of a file that is not public are returned by
\* GET /api/files/:id/data only to its uploader or to an admin, the details
\* of GET /api/files/:id only to the uploader or an admin; every other
\* authenticated user is answered 403.
C10_Privileged(u, f) == u = files[f].uploadedBy \/ Role(u) = "admin"

C10_OnlyUploaderOrAdmin ==
    \A u \in Users, f \in DOMAIN files :
        /\ GetFileOutcome(u, f) = "ok" => C10_Privileged(u, f)
        /\ ~C10_Privileged(u, f) => StatusOf(GetFileOutcome(u, f)) = 403
        /\ ~files[f].isPublic =>
              /\ GetFileDataOutcome(u, f) = "ok" => C10_Privileged(u, f)
              /\ ~C10_Privileged(u, f) => StatusOf(GetFileDataOutcome(u, f)) = 403
              /\ (C10_Privileged(u, f) /\ files[f].status = "completed")
                    => GetFileDataOutcome(u, f) = "ok"

\* C10 witness: a completed file that is not public, with a user who is
\* neither its uploader nor an admin
C10_Witness ==
    \E u \in Users, f \in DOMAIN files :
        /\ ~files[f].isPublic
        /\ files[f].status = "completed"
        /\ ~C10_Privileged(u, f)
        /\ GetFileDataOutcome(u, f) = "denied"
        /\ GetFileDataOutcome(files[f].uploadedBy, f) = "ok"

\* C9: on the file and chart routes that take an id, for a request that
\* passes the body validators, a missing resource is answered 404, then a
\* caller without access to an existing resource is answered 403, and only
\* then a state precondition (file not 'completed', file not 'failed',
\* unknown column) is answered 400; a 403 or 404 answer changes no stored
\* File or Chart.
C9_ValidPuts == {body \in CorePuts : DescriptionValid(body.description) /\ PutTagsValid(body.tags)}
C9_ValidChartBodies == {body \in CoreChartBodies : ChartBodyValid(body)}
C9_ValidChartPuts == {body \in CoreChartPuts : ChartPutValid(body)}

\* the order, route by route: [the answer, the resource is missing, the caller has no access]
C9_Order(outcome, missing, denied) ==
    /\ missing => StatusOf(outcome) = 404
    /\ (~missing /\ denied) => StatusOf(outcome) = 403
    /\ StatusOf(outcome) = 404 => missing
    /\ StatusOf(outcome) = 403 => ~missing /\ denied
    /\ StatusOf(outcome) = 400 => ~missing /\ ~denied

C9_FileRoutes ==
    \A u \in Users, f \in FileIds :
        LET missing == f \notin DOMAIN files
        IN /\ C9_Order(GetFileOutcome(u, f), missing, ~missing /\ DetailsDenied(u, files[f]))
           /\ C9_Order(GetFileDataOutcome(u, f), missing, ~missing /\ DataDenied(u, files[f]))
           /\ C9_Order(DeleteFileOutcome(u, f), missing, ~missing /\ DeleteDenied(u, files[f]))
           /\ C9_Order(ReprocessOutcome(u, f), missing, ~missing /\ OwnerOnlyDenied(u, files[f]))
           /\ \A body \in C9_ValidPuts :
                 C9_Order(PutFileOutcome(u, f, body), missing, ~missing /\ OwnerOnlyDenied(u, files[f]))
           /\ \A body \in C9_ValidChartBodies :
                 body.fileId = f =>
                    C9_Order(CreateChartOutcome(u, body), missing, ~missing /\ ChartFileDenied(u, files[f]))

C9_ChartRoutes ==
    \A c \in ChartIds :
        LET missing == c \notin DOMAIN charts
        IN /\ \A u \in Users \cup {Anonymous} :
                 C9_Order(GetChartOutcome(u, c), missing, ~missing /\ ChartDenied(u, charts[c]))
           /\ \A u \in Users :
                 /\ C9_Order(DeleteChartOutcome(u, c), missing, ~missing /\ ChartDeleteDenied(u, charts[c]))
                 /\ C9_Order(LikeChartOutcome(u, c), missing, ~missing /\ ~charts[c].isPublic)
                 /\ \A body \in C9_ValidChartPuts :
                       C9_Order(PutChartOutcome(u, c, body), missing,
                                ~missing /\ ChartOwnerOnlyDenied(u, charts[c]))

C9_Refused(outcome) == StatusOf(outcome) \in {403, 404}

\* a step that changes a stored File or Chart is no step of a refused request
C9_RefusalChangesNothing ==
    \/ UNCHANGED <<files, charts>>
    \/ /\ \A u \in Users, f \in FileIds :
             /\ ~(C9_Refused(DeleteFileOutcome(u, f)) /\ DeleteFile(u, f))
             /\ ~(C9_Refused(ReprocessOutcome(u, f)) /\ ReprocessFind(u, f))
             /\ \A body \in CorePuts :
                   ~(C9_Refused(PutFileOutcome(u, f, body)) /\ PutFile(u, f, body))
       /\ \A u \in Users, body \in CoreChartBodies :
             ~(C9_Refused(CreateChartOutcome(u, body)) /\ CreateChart(u, body, MaxCharts))
       /\ \A u \in Users \cup {Anonymous}, c \in ChartIds :
             ~(C9_Refused(GetChartOutcome(u, c)) /\ GetChart(u, c))
       /\ \A u \in Users, c \in ChartIds :
             /\ ~(C9_Refused(DeleteChartOutcome(u, c)) /\ DeleteChart(u, c))
             /\ ~(C9_Refused(LikeChartOutcome(u, c)) /\ LikeChart(u, c))
             /\ \A body \in CoreChartPuts :
                   ~(C9_Refused(PutChartOutcome(u, c, body)) /\ PutChart(u, c, body))

C9_CheckOrder ==
    /\ [](C9_FileRoutes /\ C9_ChartRoutes)
    /\ [][C9_RefusalChangesNothing]_vars

\* C9 witness: a completed file and a private chart, and a user who is
\* refused on both: the reprocess of the file meets the ownership check
\* (403) before the status check (400)
C9_Witness ==
    \E u \in Users, f \in DOMAIN files, c \in DOMAIN charts :
        /\ files[f].status = "completed"
        /\ OwnerOnlyDenied(u, files[f])
        /\ StatusOf(ReprocessOutcome(u, f)) = 403
        /\ StatusOf(ReprocessOutcome(files[f].uploadedBy, f)) = 400
        /\ StatusOf(GetChartOutcome(u, c)) = 403
        /\ StatusOf(LikeChartOutcome(u, c)) = 403

\* C11: only the uploader of a file can change it.  For an existing file and
\* a user who is not its uploader, admins included, PUT /api/files/:id (with
\* a body that passes the validators) and POST /api/files/:id/reprocess
\* answer 403; no step of such a request, whatever its body, changes a file,
\* the uploads directory or the handlers in flight; and DELETE /api/files/:id
\* goes on to delete only for the uploader or an admin.
C11_Answers ==
    \A u \in Users, f \in DOMAIN files :
        /\ u # files[f].uploadedBy =>
              /\ StatusOf(ReprocessOutcome(u, f)) = 403
              /\ \A body \in C9_ValidPuts : StatusOf(PutFileOutcome(u, f, body)) = 403
        /\ DeleteFileOutcome(u, f) = "accepted" =>
              (u = files[f].uploadedBy \/ Role(u) = "admin")

C11_OthersChangeNothing ==
    \/ UNCHANGED <<files, disk, pending, updated>>
    \/ \A u \in Users, f \in DOMAIN files :
          /\ u # files[f].uploadedBy =>
                /\ ~ReprocessFind(u, f)
                /\ \A body \in CorePuts : ~PutFile(u, f, body)
          /\ (u # files[f].uploadedBy /\ Role(u) # "admin") => ~DeleteFile(u, f)

C11_OnlyUploaderChanges == []C11_Answers /\ [][C11_OthersChangeNothing]_vars

\* C11 witness: a failed file that its uploader has edited through PUT and
\* could reprocess, while the admin is refused on PUT and on reprocess and
\* accepted on DELETE, and a third user is refused on DELETE
C11_Witness ==
    \E f \in DOMAIN files, u \in Users :
        /\ files[f].status = "failed"
        /\ f \in updated
        /\ ReprocessOutcome(files[f].uploadedBy, f) = "accepted"
        /\ files[f].uploadedBy # "admin"
        /\ StatusOf(ReprocessOutcome("admin", f)) = 403
        /\ \E body \in C9_ValidPuts : StatusOf(PutFileOutcome("admin", f, body)) = 403
        /\ DeleteFileOutcome("admin", f) = "accepted"
        /\ u # files[f].uploadedBy /\ StatusOf(DeleteFileOutcome(u, f)) = 403

\* C12: GET /api/charts/:id returns a chart only when the chart is public, or
\* the requester is its creator, or the requester is an admin; any other
\* requester, anonymous or authenticated, is answered 403.  GET /api/charts
\* with public=true returns only charts whose isPublic is true; without
\* public=true it answers 401 to an anonymous requester and otherwise
\* returns only charts created by the requester.
C12_MayRead(u, c) ==
    \/ charts[c].isPublic
    \/ u = charts[c].createdBy
    \/ (u \in Users /\ accounts[u].role = "admin")

C12_Listed(body) == {body.charts[i] : i \in 1..Len(body.charts)}

C12_OnlyReadableCharts ==
    /\ \A u \in Users \cup {Anonymous}, c \in DOMAIN charts :
          StatusOf(GetChartOutcome(u, c)) = IF C12_MayRead(u, c) THEN 200 ELSE 403
    /\ \A u \in Users \cup {Anonymous}, q \in ListQueries :
          IF q.public = "true"
          THEN /\ StatusOf(ListChartsOutcome(u, q)) = 200
               /\ \A c \in C12_Listed(ListChartsBody(u, q)) :
                     c \in DOMAIN charts /\ charts[c].isPublic
          ELSE IF u = Anonymous
          THEN StatusOf(ListChartsOutcome(u, q)) = 401
          ELSE /\ StatusOf(ListChartsOutcome(u, q)) = 200
               /\ \A c \in C12_Listed(ListChartsBody(u, q)) :
                     c \in DOMAIN charts /\ charts[c].createdBy = u

\* C12 witness: a public chart and a private chart of two creators; the
\* anonymous requester reads the first and is refused the second, the public
\* list holds the first only and each creator's own list holds their chart only
C12_Witness ==
    \E c1, c2 \in DOMAIN charts :
        LET all == [public |-> "false", type |-> "", page |-> NaN, limit |-> NaN]
            pub == [public |-> "true", type |-> "", page |-> NaN, limit |-> NaN]
        IN /\ charts[c1].isPublic /\ ~charts[c2].isPublic
           /\ charts[c1].createdBy # charts[c2].createdBy
           /\ charts[c2].createdBy # "admin"
           /\ StatusOf(GetChartOutcome(Anonymous, c1)) = 200
           /\ StatusOf(GetChartOutcome(Anonymous, c2)) = 403
           /\ StatusOf(GetChartOutcome(charts[c1].createdBy, c2)) = 403
           /\ StatusOf(GetChartOutcome("admin", c2)) = 200
           /\ ListChartsBody(Anonymous, pub).charts = <<c1>>
           /\ ListChartsBody(charts[c2].createdBy, all).charts = <<c2>>
           /\ StatusOf(ListChartsOutcome(Anonymous, all)) = 401

\* C13: POST /api/charts creates a Chart only when the referenced file
\* exists, the caller is its uploader or the file is public, the file's
\* status is 'completed', and the x-axis and y-axis columns (and for
\* dimension '3d' a given z-axis column) are headers of the file; in every
\* other case no Chart is created and the file's charts list is unchanged.
C13_Allowed(u, body) ==
    /\ body.fileId \in DOMAIN files
    /\ LET doc == files[body.fileId]
       IN /\ (doc.uploadedBy = u \/ doc.isPublic)
          /\ doc.status = "completed"
          /\ Includes(doc.processedData.headers, body.config.x.s)
          /\ Includes(doc.processedData.headers, body.config.y.s)
          /\ (body.dimension = "3d" /\ HasZ(body.config))
                => Includes(doc.processedData.headers, body.config.z.s)

\* a refused request creates nothing and starts no second segment
C13_RefusedCreatesNothing ==
    \/ UNCHANGED <<charts, nextChart, files, pending>>
    \/ \A u \in Users, body \in CoreChartBodies \cup AxisChartBodies :
          ~(~C13_Allowed(u, body) /\ CreateChart(u, body, MaxCharts))

\* a charts list grows only by the chart of an accepted request
C13_ListGrowsByCreated ==
    \A f \in DOMAIN files :
        (f \in DOMAIN files' /\ files'[f].charts # files[f].charts /\ Len(files'[f].charts) > Len(files[f].charts))
            => \E p \in pending :
                  /\ p.op = "createChart" /\ p.id = f /\ p.chart < nextChart
                  /\ files'[f].charts = Append(files[f].charts, p.chart)

C13_OnlyFromUsableFile ==
    /\ [](\A u \in Users, body \in CoreChartBodies \cup AxisChartBodies :
             CreateChartOutcome(u, body) = "accepted" => C13_Allowed(u, body))
    /\ [][C13_RefusedCreatesNothing /\ C13_ListGrowsByCreated]_vars

\* C13 witness: a 3d chart created on a public file by a user who is not its
\* uploader stands in the file's charts list, while a 3d body with an unknown
\* z column is refused with 400
C13_Witness ==
    \E c \in DOMAIN charts, u \in Users :
        LET f == charts[c].fileId
        IN /\ f \in DOMAIN files
           /\ charts[c].createdBy # files[f].uploadedBy
           /\ charts[c].dimension = "3d"
           /\ Includes(files[f].charts, c)
           /\ \E body \in AxisChartBodies :
                 /\ body.fileId = f
                 /\ CreateChartOutcome(u, body) = "zcolumn"
                 /\ ~C13_Allowed(u, body)

\* C14 (as stated): POST /api/charts/:id/like toggles the caller's like.  After any
\* sequence of like requests a user occurs at most once in the chart's
\* likes, a user's like is present exactly when that user has made an odd
\* number of successful like requests, likesCount equals the number of users
\* whose like is present, and a like request on a chart that is not public
\* is answered 403 and leaves likes unchanged.
C14_Likes ==
    \A c \in DOMAIN charts :
        LET likes == charts[c].likes
        IN /\ \A i, j \in 1..Len(likes) : i # j => likes[i] # likes[j]
           /\ \A u \in Users : Includes(likes, u) <=> <<c, u>> \in liked
           /\ likesCount(charts[c]) = Cardinality({u \in Users : <<c, u>> \in liked})
           /\ ~charts[c].isPublic =>
                 \A u \in Users : StatusOf(LikeChartOutcome(u, c)) = 403

C14_PrivateLikeChangesNothing ==
    \/ UNCHANGED <<charts, liked>>
    \/ \A u \in Users, c \in DOMAIN charts : ~(~charts[c].isPublic /\ LikeChart(u, c))

C14_LikeToggles == []C14_Likes /\ [][C14_PrivateLikeChangesNothing]_vars

\* C15 (as stated): an admin cannot demote or deactivate themselves.  A
\* PUT /api/admin/users/:id/role with role 'user', or a
\* PUT /api/admin/users/:id/status with isActive false, that targets the
\* requesting admin's own id is answered 400 and leaves that admin's stored
\* role and isActive unchanged.  (Stated for the only admin there is, whose
\* request is then the only one that can have made the step.)
C15_OnlyAdmin(u) == \A v \in Users : accounts[v].role = "admin" <=> v = u

C15_Answered400 ==
    \A u \in Users :
        accounts[u].role = "admin" =>
            /\ StatusOf(PutUserRoleOutcome(u, u, "user")) = 400
            /\ StatusOf(PutUserStatusOutcome(u, u, JsBool(FALSE))) = 400

C15_SelfUnchanged ==
    \A u \in Users :
        C15_OnlyAdmin(u) =>
            /\ PutUserRole(u, u, "user") => accounts'[u] = accounts[u]
            /\ PutUserStatus(u, u, JsBool(FALSE)) => accounts'[u] = accounts[u]

C15_NoSelfDemotion == []C15_Answered400 /\ [][C15_SelfUnchanged]_vars

\* C16: GET /api/files/:id/data paginates the parsed rows.  For page p >= 1
\* and limit L >= 1 it returns exactly the rows at indices (p-1)*L up to but
\* excluding min(p*L, totalRows) in stored order, hasMore is true exactly
\* when p*L < totalRows, totalPages is ceil(totalRows / L), and the pages
\* 1..totalPages concatenated give every row exactly once.
C16_Min(a, b) == IF a < b THEN a ELSE b

\* the rows at the 0-based indices from..(to - 1)
C16_Rows(rows, from, to) == [i \in 1..(IF to > from THEN to - from ELSE 0) |-> rows[from + i]]

\* the least n with n * L >= total
C16_Ceil(total, L) == CHOOSE n \in 0..total : n * L >= total /\ (n = 0 \/ (n - 1) * L < total)

RECURSIVE C16_Pages(_, _, _)
C16_Pages(f, L, p) ==
    IF p = 0 THEN <<>> ELSE C16_Pages(f, L, p - 1) \o GetFileDataBody(f, p, L).rows

C16_Answer ==
    (result # NoResult /\ result.status = 200 /\ call.page >= 1 /\ call.limit >= 1) =>
        LET rows  == files[call.file].processedData.rows
            total == files[call.file].processedData.totalRows
            p     == call.page
            L     == call.limit
        IN /\ total = Len(rows)
           /\ result.data.rows = C16_Rows(rows, (p - 1) * L, C16_Min(p * L, total))
           /\ result.data.hasMore = (p * L < total)
           /\ result.data.totalPages = C16_Ceil(total, L)
           /\ result.data.currentPage = p

C16_AllPages ==
    \A f \in DOMAIN files, L \in 1..(MaxPageRows + 1) :
        files[f].status = "completed" =>
            C16_Pages(f, L, GetFileDataBody(f, 1, L).totalPages) = files[f].processedData.rows

C16_Pagination == C16_Answer /\ C16_AllPages

\* C16 witness: the second page of two rows of a file of four rows has been
\* answered, and a last page that is not full exists for the limit of three
C16_Witness ==
    /\ result # NoResult /\ result.status = 200
    /\ call.page = 2 /\ call.limit = 3
    /\ files[call.file].processedData.totalRows = 4
    /\ Len(result.data.rows) = 1
    /\ ~result.data.hasMore
    /\ result.data.totalPages = 2

\* C17 (as stated): the status of a File record changes only along
\* processing -> completed, processing -> failed and failed -> processing
\* (reprocess): 'completed' is absorbing, and processedData is written only
\* in the step that sets status to 'completed', so a file that is not
\* 'completed' has empty headers and rows.
C17_Transitions ==
    {<<"processing", "completed">>, <<"processing", "failed">>, <<"failed", "processing">>}

C17_Step ==
    \A f \in DOMAIN files \cap DOMAIN files' :
        /\ files'[f].status # files[f].status =>
              <<files[f].status, files'[f].status>> \in C17_Transitions
        /\ files'[f].processedData # files[f].processedData =>
              (files[f].status # "completed" /\ files'[f].status = "completed")

C17_NoDataBeforeCompleted ==
    \A f \in DOMAIN files :
        files[f].status # "completed" =>
            (files[f].processedData.headers = <<>> /\ files[f].processedData.rows = <<>>)

C17_StatusLifeCycle == []C17_NoDataBeforeCompleted /\ [][C17_Step]_vars

\* C18 (as stated): after any sequence of chart creations and chart
\* deletions (by the creator through DELETE /api/charts/:id or by an admin
\* through either delete route), once every request has been answered, for
\* every existing File the charts list holds each existing Chart whose
\* fileId is that file exactly once and holds no id of a deleted chart.
C18_Count(list, c) == Cardinality({i \in 1..Len(list) : list[i] = c})

C18_ListsMatchCharts ==
    pending = {} =>
        \A f \in DOMAIN files, c \in 1..(nextChart - 1) :
            C18_Count(files[f].charts, c) =
                IF c \in DOMAIN charts /\ charts[c].fileId = f THEN 1 ELSE 0

\* C19 (as stated): generateChartData yields labels and a single dataset
\* whose data has the same length as labels, with data[i] derived from the
\* same row as labels[i]: a row contributes a label exactly when it
\* contributes a data point, for 2D and for 3D (z-axis) configurations alike.
C19_LabelsMatchData ==
    \A c \in DOMAIN charts :
        LET labels == charts[c].chartData.labels
            data   == charts[c].chartData.data
        IN /\ Len(labels) = Len(data)
           /\ \A i \in 1..Len(data) : data[i].kind = "xyz" => data[i].x = labels[i]

\* C20 (as stated): every column that generateChartData reads to build data
\* points has been checked to be a header of the file: a z-axis column given
\* in the request is either validated against the headers or not used, so a
\* chart with dimension '2d' stores scalar y values as data points and never
\* {x, y, z} points.
C20_ColumnsChecked ==
    /\ \A u \in Users, body \in CoreChartBodies \cup AxisChartBodies :
          (CreateChartOutcome(u, body) = "accepted" /\ HasZ(body.config)) =>
              Includes(files[body.fileId].processedData.headers, body.config.z.s)
    /\ \A c \in DOMAIN charts :
          charts[c].dimension = "2d" =>
              \A i \in 1..Len(charts[c].chartData.data) : charts[c].chartData.data[i].kind = "y"

\* --------------------------------------------- parseExcelFile on its own
\* Columns and data rows of the sheets parseExcelFile is called with.
MaxParseCols == 2
MaxParseRows == 3

\* Header cells: a name, an empty cell, the name the parser uses for its
\* own key, and a cell that holds one blank.
ParseHeaderCells ==
    {JsStr(Word("x")), JsNull, JsStr(RowIndexKey), JsStr(Txt(1, "", 0))}

\* Data cells as sheet_to_json({ header: 1, defval: null, raw: false }) gives them.
ParseCells == {JsNull, JsStr(Word("q"))}

\* Sheets of n columns: a header row and up to MaxParseRows data rows, every
\* row as wide as the sheet's range.
ParseSheets(n) ==
    {<<headers>> \o data :
        headers \in [1..n -> ParseHeaderCells],
        data \in UNION {[1..m -> [1..n -> ParseCells]] : m \in 0..MaxParseRows}}

ParseWorkbooks ==
    {[SheetNames |-> <<Word("S1")>>, json |-> json] :
        json \in UNION {ParseSheets(n) : n \in 1..MaxParseCols}}
    \cup {WbGood, WbEmptySheet, WbNoSheets}

InitParse ==
    /\ env = <<>>
    /\ call \in {[wb |-> wb] : wb \in ParseWorkbooks}
    /\ result = NoResult
    /\ Start

\* ExcelParser.parseExcelFile(filePath) on a file that exists
ParseExcelFileCall ==
    /\ result = NoResult
    /\ result' = [returned |-> TRUE, parsed |-> parseExcelFile(TRUE, BaseSize, call.wb)]
    /\ UNCHANGED <<call, accounts, liked, env, nextId, disk, files, nextChart, charts, pending, answered, updated>>

SpecParse == InitParse /\ [][ParseExcelFileCall]_vars

\* a data row whose cells are all null or empty
C21_Blank(row) == \A i \in 1..Len(row) : row[i] \in {JsNull, JsUndefined, JsStr(EmptyTxt)}

\* the data rows of the sheet, the first being sheet row 2
C21_DataRows == Tail(call.wb.json)

\* the indices of the data rows that are not blank, in sheet order
C21_Remaining ==
    LET S == {i \in 1..Len(C21_DataRows) : ~C21_Blank(C21_DataRows[i])}
    IN CHOOSE s \in [1..Cardinality(S) -> S] :
          \A i, j \in 1..Cardinality(S) : i < j => s[i] < s[j]

\* blank rows are dropped and totalRows counts the rest
C21_BlankRowsDropped ==
    (result.returned /\ result.parsed.ok) =>
        /\ Len(result.parsed.rows) = Len(C21_Remaining)
        /\ result.parsed.totalRows = Len(C21_Remaining)

\* C21 (as stated): parseExcelFile drops every data row whose cells are all
\* null or empty, totalRows is the number of remaining rows, and each
\* remaining row's _rowIndex is the number of the sheet row it came from
\* (header = row 1, first data row = row 2), also when blank rows precede it.
C21_RowIndexIsSheetRow ==
    /\ C21_BlankRowsDropped
    /\ (result.returned /\ result.parsed.ok) =>
          \A k \in 1..Len(result.parsed.rows) :
              k <= Len(C21_Remaining) =>
                  result.parsed.rows[k][RowIndexKey] = JsNum(C21_Remaining[k] + 1)

\* the header row of the sheet
C22_HeaderCells == call.wb.json[1]

\* every header is a non-empty name, an empty header cell at position i
\* (counted from 0) being named Column_{i+1}
C22_HeadersNamed ==
    (result.returned /\ result.parsed.ok) =>
        /\ Len(result.parsed.headers) = Len(C22_HeaderCells)
        /\ result.parsed.totalColumns = Len(result.parsed.headers)
        /\ \A i \in 1..Len(result.parsed.headers) :
              /\ StrLen(result.parsed.headers[i]) > 0
              /\ C22_HeaderCells[i] \in {JsNull, JsUndefined, JsStr(EmptyTxt)} =>
                    result.parsed.headers[i] = ColumnName(i)

\* every row object has one key per header besides _rowIndex
C22_OneValuePerHeader ==
    (result.returned /\ result.parsed.ok) =>
        \A k \in 1..Len(result.parsed.rows) :
            Cardinality(DOMAIN result.parsed.rows[k] \ {RowIndexKey}) = result.parsed.totalColumns

\* C22 (as stated): in the result of parseExcelFile every header is a
\* non-empty name (an empty header cell at position i becomes Column_{i+1}),
\* totalColumns is the number of headers, and every row object holds exactly
\* one cell value per header, so its number of keys other than _rowIndex
\* equals totalColumns, also when two header cells carry the same text or a
\* header is named _rowIndex.
C22_RowsMatchHeaders == C22_HeadersNamed /\ C22_OneValuePerHeader

\* ------------------------------------------------- the frontend's uploads
\* filesAPI.uploadFile(file, onProgress): formData.append('file', file),
\* nothing else in the form
filesAPI_uploadFile(file) ==
    [field |-> "file", file |-> file, body |-> [description |-> JsUndefined, tags |-> <<>>]]

\* the uploadFile thunk: formData.append('excelFile', data.file); the
\* description and the tags are appended if they are truthy ('' is not)
uploadFile(data) ==
    [field |-> "excelFile",
     file  |-> data.file,
     body  |-> [description |-> IF data.description \in {JsUndefined, JsStr(EmptyTxt)}
                                THEN JsUndefined ELSE data.description,
                tags        |-> IF data.tags = <<EmptyTxt>> THEN <<>> ELSE data.tags]]

\* the multipart request a client call sends
ClientRequest(c) ==
    IF c.client = "filesAPI" THEN filesAPI_uploadFile(c.file) ELSE uploadFile(c)

\* The spreadsheets the user picks: valid .xlsx and .xls files.
ClientFiles ==
    {[originalname |-> nm[1], mimetype |-> nm[2], size |-> BaseSize, wb |-> wb] :
        nm \in {<<NameXlsx, XlsxMime>>, <<NameXls, XlsMime>>},
        wb \in {WbGood, WbEmptySheet}}

\* handleUpload passes the file alone; the thunk's callers pass a
\* description and tags, or leave them out
ClientCalls ==
    {[client |-> "filesAPI", user |-> u, file |-> file, description |-> JsUndefined, tags |-> <<>>] :
        u \in Users, file \in ClientFiles}
    \cup
    {[client |-> "thunk", user |-> u, file |-> file, description |-> d, tags |-> t] :
        u \in Users, file \in ClientFiles,
        d \in {JsUndefined, JsStr(EmptyTxt), BaseDescription, JsStr(Word("desc501"))},
        t \in {<<>>, <<EmptyTxt>>, BaseTags}}

InitClients ==
    /\ env = <<>>
    /\ call \in ClientCalls
    /\ result = NoResult
    /\ Start

\* api.post('/files/upload', formData) reaching POST /api/files/upload
FilesAPIUpload(readOk) ==
    /\ call.client = "filesAPI"
    /\ UploadReceive(call.user, filesAPI_uploadFile(call.file), readOk, MaxFiles)

\* axios.post('/api/files/upload', formData) reaching POST /api/files/upload
ThunkUpload(readOk) ==
    /\ call.client = "thunk"
    /\ UploadReceive(call.user, uploadFile(call), readOk, MaxFiles)

NextClients ==
    \/ \E readOk \in BOOLEAN : FilesAPIUpload(readOk)
    \/ \E readOk \in BOOLEAN : ThunkUpload(readOk)
    \/ \E p \in pending, readOk \in BOOLEAN : UploadProcess(p, readOk)
    \/ \E u \in Users, f \in FileIds : GetFile(u, f)

SpecClients == InitClients /\ [][NextClients]_vars

\* C23 (as stated): every frontend upload client sends the spreadsheet in
\* the multipart field the upload middleware accepts ('excelFile'), so a
\* valid .xls/.xlsx file sent through filesAPI.uploadFile or through the
\* uploadFile thunk reaches the upload handler as req.file and is not
\* answered 400 for an unexpected field name.
C23_ClientsUseUploadField ==
    /\ ClientRequest(call).field = UploadField
    /\ fileFilter(call.file) => MulterOutcome(ClientRequest(call)) = "stored"

====
